---- MODULE Spec2Model ----
(***************************************************************************)
(* A model of the impact-analysis and budget-allocation core of aidev:     *)
(*   - BudgetAllocator (src/src/prompt/allocator.ts) with the generic      *)
(*     token estimator it calls for truncation (src/src/tokens/generic.ts) *)
(*   - ImpactAnalyzer  (src/src/impact/analyzer.ts)                        *)
(*   - GraphBuilder    (src/src/graph/builder.ts)                          *)
(*                                                                         *)
(* Numbers.  Token counts, budgets, distances are integers.  A percentage  *)
(* p is held as the integer 100*p (PctScale); an edge confidence c as      *)
(* 100*c, a component confidence as 10*c, a file confidence as 1000*c.     *)
(* The two places where IEEE-754 rounding changes an integer               *)
(* result (ceil(base * 1.1) and floor((m / 1.1) * 3.5)) are modelled with  *)
(* the rounding they have in double precision, see EstimateText and        *)
(* TargetChars.  A number that may be NaN or infinite (constructor         *)
(* arguments) is a record [fin, v].                                        *)
(* An item's path, which the allocator only compares, is held as its rank  *)
(* in code-unit order (0 is the empty string).  The analyzer's strings     *)
(* (paths, component names), which it also rewrites, are sequences of      *)
(* characters.                                                             *)
(***************************************************************************)
EXTENDS Integers, Sequences, FiniteSets, TLC

VARIABLES
    allocator,   \* the BudgetAllocator last constructed, or None
    contextItems, \* the ContextItem list the caller is collecting
    thrown,      \* the error the last call raised, or "none"
    lastCall,    \* the last call made and its arguments
    result,      \* allocate()'s AllocationResult for contextItems, or None
    model,       \* the ProjectModel read from disk so far
    analyzer,    \* the ImpactAnalyzer over model (its two caches), or None
    changes,     \* the ChangedFile list of the last analyze() call
    report,      \* the ImpactReport of the last analyze() call, or None
    trail,       \* the last explainImpact() call and what it returned, or None
    builder,     \* the GraphBuilder: its `files` map
    added,       \* the addScanResult calls made on builder, in order
    built        \* the edges of the last buildEdges() call, or None

allocVars == <<allocator, contextItems, thrown, lastCall, result>>

impactVars == <<model, analyzer, changes, report, trail>>

graphVars == <<builder, added, built>>

vars == <<allocator, contextItems, thrown, lastCall, result,
          model, analyzer, changes, report, trail, builder, added, built>>

None == [none |-> TRUE]

(***************************************************************************)
(* Bounds of the model                                                     *)
(***************************************************************************)
MaxItems == 3

(***************************************************************************)
(* Small helpers                                                           *)
(***************************************************************************)
Range(s) == {s[i] : i \in DOMAIN s}

Min(a, b) == IF a <= b THEN a ELSE b

Max(a, b) == IF a >= b THEN a ELSE b

Abs(a) == IF a < 0 THEN -a ELSE a

RECURSIVE SumSeq(_)
SumSeq(s) == IF s = <<>> THEN 0 ELSE s[1] + SumSeq(Tail(s))

RECURSIVE SumOver(_, _)
SumOver(f, S) ==
    IF S = {} THEN 0
    ELSE LET x == CHOOSE y \in S : TRUE IN f[x] + SumOver(f, S \ {x})

\* the largest power of two that is <= n, for n >= 1
RECURSIVE Pow2Floor(_)
Pow2Floor(n) == IF n < 2 THEN 1 ELSE 2 * Pow2Floor(n \div 2)

SeqsUpTo(S, n) == UNION {[1..k -> S] : k \in 0..n}

(***************************************************************************)
(* Numbers that may be non-finite (constructor arguments)                  *)
(***************************************************************************)
Num(n) == [fin |-> TRUE, v |-> n]

NaN == [fin |-> FALSE, v |-> 0]

Infinity == [fin |-> FALSE, v |-> 1]

IsFinite(x) == x.fin

(***************************************************************************)
(* GenericTokenEstimator                                                   *)
(* A text is [wide, narrow]: `wide` code points outside the BMP (two       *)
(* UTF-16 code units each, e.g. emoji) followed by `narrow` BMP code       *)
(* points.  text.length counts code units, Array.from(text) code points.   *)
(***************************************************************************)
CharsPerTokenX2 == 7          \* charsPerToken = 3.5, held as 7/2

MarkerLength == 16            \* '\n... [truncated]'.length

MarkerReserve == 20

Text(wide, narrow) == [wide |-> wide, narrow |-> narrow]

EmptyText == Text(0, 0)

Length(text) == 2 * text.wide + text.narrow

CodePoints(text) == text.wide + text.narrow

\* the first k code points of text
Prefix(text, k) ==
    Text(Min(k, text.wide), Min(Max(k - text.wide, 0), text.narrow))

WithMarker(text) == Text(text.wide, text.narrow + MarkerLength)

\* estimateText: ceil(ceil(length / 3.5) * (1 + 0.10)).  The double nearest
\* 1.1 exceeds 1.1 by 0.4 * 2^-52, so for base = 10k the product 11k + 4k*2^-52
\* rounds above the integer 11k exactly when 8k > 2^floor(log2(11k)), and the
\* outer ceil then yields 11k + 1.
EstimateLength(len) ==
    LET base == (2 * len + CharsPerTokenX2 - 1) \div CharsPerTokenX2
        k    == base \div 10
    IN  IF base > 0 /\ base % 10 = 0 /\ 8 * k > Pow2Floor(11 * k)
        THEN 11 * k + 1
        ELSE (11 * base + 9) \div 10

EstimateText(text) == EstimateLength(Length(text))

\* floor((maxTokens / 1.1) * 3.5) - 20.  For maxTokens = 11j the quotient
\* 10j / (1 + (4/11) 2^-52) rounds below 10j exactly when
\* 80j > 11 * 2^floor(log2(10j)), and the floor then yields 35j - 1.
TargetChars(maxTokens) ==
    LET j == maxTokens \div 11
    IN  IF maxTokens > 0 /\ maxTokens % 11 = 0 /\ 80 * j > 11 * Pow2Floor(10 * j)
        THEN 35 * j - 1 - MarkerReserve
        ELSE (35 * maxTokens) \div 11 - MarkerReserve

TruncateToFit(text, maxTokens) ==
    IF maxTokens <= 0 THEN EmptyText
    ELSE IF Length(text) = 0 THEN EmptyText
    ELSE IF EstimateText(text) <= maxTokens THEN text
    ELSE LET targetChars == TargetChars(maxTokens)
         IN  IF targetChars <= 0 THEN EmptyText
             ELSE WithMarker(Prefix(text, Min(targetChars, CodePoints(text))))

(***************************************************************************)
(* BudgetAllocator: configuration and validation                           *)
(***************************************************************************)
PctScale == 100               \* a percentage p is held as PctScale * p

TolInverse == 1000000000      \* the tolerance 1e-9 is 1 / TolInverse

MinTokensThreshold == 10000   \* minTokens apply from this total budget on

TruncateFloor == 100          \* truncate only when more than this remains

CategoryBudget(c, p, lo, hi) ==
    [category |-> c, percentage |-> p, minTokens |-> lo, maxTokens |-> hi]

DEFAULT_BUDGETS ==
    << CategoryBudget("task",          Num(5),  Num(200),  Num(2000)),
       CategoryBudget("changed",       Num(40), Num(5000), Num(50000)),
       CategoryBudget("impacted",      Num(25), Num(3000), Num(30000)),
       CategoryBudget("contract",      Num(15), Num(2000), Num(20000)),
       CategoryBudget("architecture",  Num(10), Num(1000), Num(10000)),
       CategoryBudget("decision",      Num(5),  Num(500),  Num(5000)) >>

\* ValidateEntry without the minTokens > maxTokens test
ValidateEntryNoMinMax(b, seen) ==
    IF b.category \in seen THEN "duplicate"
    ELSE IF ~IsFinite(b.percentage) \/ b.percentage.v < 0
                                    \/ b.percentage.v > PctScale THEN "percentage"
    ELSE IF ~IsFinite(b.minTokens) \/ b.minTokens.v < 0 THEN "minTokens"
    ELSE IF ~IsFinite(b.maxTokens) \/ b.maxTokens.v < 0 THEN "maxTokens"
    ELSE "ok"

\* The check of one table entry, given the categories seen before it:
\* the name of the first violated rule, or "ok".
ValidateEntry(b, seen) ==
    IF b.category \in seen THEN "duplicate"
    ELSE IF ~IsFinite(b.percentage) \/ b.percentage.v < 0
                                    \/ b.percentage.v > PctScale THEN "percentage"
    ELSE IF ~IsFinite(b.minTokens) \/ b.minTokens.v < 0 THEN "minTokens"
    ELSE IF ~IsFinite(b.maxTokens) \/ b.maxTokens.v < 0 THEN "maxTokens"
    ELSE IF b.minTokens.v > b.maxTokens.v THEN "minmax"
    ELSE "ok"

\* validateBudgets: TRUE when it returns, FALSE when it throws
\* BudgetValidationError.  The loop stops at the first bad entry; pctSum is
\* compared with 1 only when every entry passed.
RECURSIVE ValidateFrom(_, _, _, _)
ValidateFrom(budgets, i, seen, pctSum) ==
    IF i > Len(budgets)
    THEN ~(Abs(pctSum - PctScale) > PctScale \div TolInverse)
    ELSE IF ValidateEntry(budgets[i], seen) # "ok" THEN FALSE
    ELSE ValidateFrom(budgets, i + 1, seen \cup {budgets[i].category},
                      pctSum + budgets[i].percentage.v)

validateBudgets(budgets) == ValidateFrom(budgets, 1, {}, 0)

\* constructor(totalBudget, budgets = DEFAULT_BUDGETS): the new allocator, or
\* None when the constructor throws.  `custom` is FALSE when the defaults are
\* used (budgets === DEFAULT_BUDGETS), which are validated at module load.
ConstructorThrows(totalBudget, custom, budgets) ==
    \/ ~IsFinite(totalBudget) \/ totalBudget.v <= 0
    \/ custom /\ ~validateBudgets(budgets)

NewAllocator(totalBudget, custom, budgets) ==
    IF ConstructorThrows(totalBudget, custom, budgets) THEN None
    ELSE [totalBudget |-> totalBudget.v,
          budgets |-> [i \in DOMAIN budgets |->
                         [category   |-> budgets[i].category,
                          percentage |-> budgets[i].percentage.v,
                          minTokens  |-> budgets[i].minTokens.v,
                          maxTokens  |-> budgets[i].maxTokens.v]]]

(***************************************************************************)
(* BudgetAllocator.allocate                                                *)
(* An item carries `ref`, its position in the list passed to allocate: it  *)
(* stands for the identity of the item object (the truncated copy is made  *)
(* from the item by spreading it, so it keeps the item's ref).             *)
(***************************************************************************)
TableCategories(a) == {a.budgets[i].category : i \in DOMAIN a.budgets}

\* EntryBudget taking the percentage of what the total leaves above minTokens
EntryBudgetAboveMin(totalBudget, b) ==
    LET byPct  == ((totalBudget - b.minTokens) * b.percentage) \div PctScale
        capped == Min(byPct, b.maxTokens)
    IN  IF totalBudget >= MinTokensThreshold THEN Max(b.minTokens, capped)
        ELSE capped

\* EntryBudget that raises a sub-budget to minTokens whatever the total is
EntryBudgetAlwaysRaised(totalBudget, b) ==
    Max(b.minTokens, Min((totalBudget * b.percentage) \div PctScale, b.maxTokens))

\* EntryBudget that never raises a sub-budget to minTokens
EntryBudgetNeverRaised(totalBudget, b) ==
    Min((totalBudget * b.percentage) \div PctScale, b.maxTokens)

\* calculateCategoryBudgets, for one table entry.  Math.floor(totalBudget *
\* percentage) is exact in integers for the percentages the model uses.
EntryBudget(totalBudget, b) ==
    LET byPct  == (totalBudget * b.percentage) \div PctScale
        capped == Min(byPct, b.maxTokens)
    IN  IF totalBudget >= MinTokensThreshold THEN Max(b.minTokens, capped)
        ELSE capped

\* the map calculateCategoryBudgets returns; with a duplicate-free table each
\* category has one entry
calculateCategoryBudgets(a) ==
    [c \in TableCategories(a) |->
        LET i == CHOOSE k \in DOMAIN a.budgets : a.budgets[k].category = c
        IN  EntryBudget(a.totalBudget, a.budgets[i])]

\* categoryBudgets.get(category) || 0
BudgetOf(categoryBudgets, category) ==
    IF category \in DOMAIN categoryBudgets THEN categoryBudgets[category] ELSE 0

\* the comparator without its tie-break on path
ItemBeforeByPriorityOnly(a, b) == a.priority > b.priority

\* the comparator of the per-category sort, as "a goes before b"
ItemBefore(a, b) ==
    \/ a.priority > b.priority
    \/ a.priority = b.priority /\ a.path < b.path

\* Array.prototype.sort is stable: an item goes behind the items it does not
\* go before
InsertItem(sorted, x) ==
    LET later == {i \in DOMAIN sorted : ItemBefore(x, sorted[i])}
        at    == IF later = {} THEN Len(sorted) + 1
                 ELSE CHOOSE i \in later : \A k \in later : i <= k
    IN  SubSeq(sorted, 1, at - 1) \o <<x>> \o SubSeq(sorted, at, Len(sorted))

RECURSIVE SortCategoryItems(_)
SortCategoryItems(s) ==
    IF s = <<>> THEN <<>>
    ELSE InsertItem(SortCategoryItems(SubSeq(s, 1, Len(s) - 1)), s[Len(s)])

\* allocated.sort((a, b) => b.priority - a.priority), stable
InsertByPriority(sorted, x) ==
    LET later == {i \in DOMAIN sorted : x.priority > sorted[i].priority}
        at    == IF later = {} THEN Len(sorted) + 1
                 ELSE CHOOSE i \in later : \A k \in later : i <= k
    IN  SubSeq(sorted, 1, at - 1) \o <<x>> \o SubSeq(sorted, at, Len(sorted))

RECURSIVE SortByPriority(_)
SortByPriority(s) ==
    IF s = <<>> THEN <<>>
    ELSE InsertByPriority(SortByPriority(SubSeq(s, 1, Len(s) - 1)), s[Len(s)])

truncateItem(item, maxTokens) ==
    LET truncated == TruncateToFit(item.content, maxTokens)
    IN  [item EXCEPT !.content = truncated,
                     !.tokens = EstimateText(truncated),
                     !.truncatable = FALSE]

\* budgetUsed[category] = (budgetUsed[category] || 0) + tokens
AddUsed(budgetUsed, category, tokens) ==
    [c \in DOMAIN budgetUsed \cup {category} |->
        IF c = category
        THEN (IF c \in DOMAIN budgetUsed THEN budgetUsed[c] ELSE 0) + tokens
        ELSE budgetUsed[c]]

\* AllocateItem with the truncated item also recorded as dropped
AllocateItemAlsoDropped(st, category, item) ==
    IF item.tokens <= st.remaining
    THEN [st EXCEPT !.allocated = Append(@, item),
                    !.remaining = @ - item.tokens,
                    !.budgetUsed = AddUsed(@, category, item.tokens)]
    ELSE IF item.truncatable /\ st.remaining > TruncateFloor
    THEN LET truncated == truncateItem(item, st.remaining)
         IN  [st EXCEPT !.allocated = Append(@, truncated),
                        !.budgetUsed = AddUsed(@, category, truncated.tokens),
                        !.remaining = 0,
                        !.dropped = Append(@, item)]
    ELSE [st EXCEPT !.dropped = Append(@, item)]

\* AllocateItem charging the category for the item's tokens before truncation
AllocateItemChargesOriginal(st, category, item) ==
    IF item.tokens <= st.remaining
    THEN [st EXCEPT !.allocated = Append(@, item),
                    !.remaining = @ - item.tokens,
                    !.budgetUsed = AddUsed(@, category, item.tokens)]
    ELSE IF item.truncatable /\ st.remaining > TruncateFloor
    THEN LET truncated == truncateItem(item, st.remaining)
         IN  [st EXCEPT !.allocated = Append(@, truncated),
                        !.budgetUsed = AddUsed(@, category, item.tokens),
                        !.remaining = 0]
    ELSE [st EXCEPT !.dropped = Append(@, item)]

\* AllocateItem truncating whenever anything at all remains
AllocateItemTruncatesBelowFloor(st, category, item) ==
    IF item.tokens <= st.remaining
    THEN [st EXCEPT !.allocated = Append(@, item),
                    !.remaining = @ - item.tokens,
                    !.budgetUsed = AddUsed(@, category, item.tokens)]
    ELSE IF item.truncatable /\ st.remaining > 0
    THEN LET truncated == truncateItem(item, st.remaining)
         IN  [st EXCEPT !.allocated = Append(@, truncated),
                        !.budgetUsed = AddUsed(@, category, truncated.tokens),
                        !.remaining = 0]
    ELSE [st EXCEPT !.dropped = Append(@, item)]

\* one turn of the loop over a category's sorted items; st holds allocated,
\* dropped, budgetUsed and the category's remaining budget
AllocateItem(st, category, item) ==
    IF item.tokens <= st.remaining
    THEN [st EXCEPT !.allocated = Append(@, item),
                    !.remaining = @ - item.tokens,
                    !.budgetUsed = AddUsed(@, category, item.tokens)]
    ELSE IF item.truncatable /\ st.remaining > TruncateFloor
    THEN LET truncated == truncateItem(item, st.remaining)
         IN  [st EXCEPT !.allocated = Append(@, truncated),
                        !.budgetUsed = AddUsed(@, category, truncated.tokens),
                        !.remaining = 0]
    ELSE [st EXCEPT !.dropped = Append(@, item)]

RECURSIVE AllocateSorted(_, _, _)
AllocateSorted(st, category, sorted) ==
    IF sorted = <<>> THEN st
    ELSE AllocateSorted(AllocateItem(st, category, sorted[1]), category,
                        Tail(sorted))

\* the categories with the one met last in front
RECURSIVE CategoryOrderLatestFirst(_)
CategoryOrderLatestFirst(items) ==
    IF items = <<>> THEN <<>>
    ELSE LET rest == CategoryOrderLatestFirst(Tail(items))
             c    == items[1].category
         IN  IF c \in Range(rest) THEN rest ELSE Append(rest, c)

\* the keys of byCategory in insertion order: each category at the place of
\* its first item
RECURSIVE CategoryOrder(_)
CategoryOrder(items) ==
    IF items = <<>> THEN <<>>
    ELSE LET before == CategoryOrder(SubSeq(items, 1, Len(items) - 1))
             c      == items[Len(items)].category
         IN  IF c \in Range(before) THEN before ELSE Append(before, c)

ItemsOf(items, category) ==
    SelectSeq(items, LAMBDA it : it.category = category)

RECURSIVE AllocateCategories(_, _, _, _)
AllocateCategories(st, categoryBudgets, items, order) ==
    IF order = <<>> THEN st
    ELSE LET category == order[1]
             start    == [st EXCEPT !.remaining =
                                        BudgetOf(categoryBudgets, category)]
             sorted   == SortCategoryItems(ItemsOf(items, category))
         IN  AllocateCategories(AllocateSorted(start, category, sorted),
                                categoryBudgets, items, Tail(order))

\* allocate(items) on allocator a
allocate(a, items) ==
    LET categoryBudgets == calculateCategoryBudgets(a)
        init == [allocated |-> <<>>, dropped |-> <<>>, remaining |-> 0,
                 budgetUsed |-> [c \in TableCategories(a) |-> 0]]
        done == AllocateCategories(init, categoryBudgets, items,
                                   CategoryOrder(items))
    IN  [allocated   |-> SortByPriority(done.allocated),
         dropped     |-> done.dropped,
         totalTokens |-> SumOver(done.budgetUsed, DOMAIN done.budgetUsed),
         budgetUsed  |-> done.budgetUsed]

(***************************************************************************)
(* Inputs of the allocator                                                 *)
(***************************************************************************)
Item(c, path, content, tokens, priority, truncatable) ==
    [category |-> c, path |-> path, content |-> content, tokens |-> tokens,
     priority |-> priority, truncatable |-> truncatable, ref |-> 0]

\* The items a caller may collect.  A priority p is held as 10 * p.
ItemPool ==
    { Item("changed", 1, Text(0, 1), 2000, 10, FALSE),
      Item("changed", 2, Text(0, 1), 100, 5, FALSE),
      Item("changed", 3, Text(0, 20000), 7000, 10, TRUE),
      Item("changed", 0, Text(20000, 0), 12572, 8, TRUE),
      Item("changed", 2, Text(0, 35), 9000, 5, TRUE),
      Item("changed", 0, Text(0, 1), 50, 10, FALSE),
      Item("task", 1, Text(0, 1), 10, 10, FALSE),
      Item("impacted", 2, Text(0, 1), 1500, 3, FALSE) }

SmallItemPool ==
    { Item("changed", 1, Text(0, 1), 2000, 10, FALSE),
      Item("task", 1, Text(0, 1), 10, 10, FALSE) }

ValidTables ==
    { << CategoryBudget("changed", Num(50), Num(0), Num(1000)),
         CategoryBudget("task", Num(50), Num(0), Num(1000)) >>,
      << CategoryBudget("changed", Num(100), Num(200), Num(400)) >> }

\* what a single field of a table entry may be replaced by
BadCategoryBudgets(b) ==
    {[b EXCEPT !.percentage = x] : x \in {Num(-10), Num(150), NaN, Num(30)}}
    \cup {[b EXCEPT !.minTokens = x] : x \in {Num(-1), NaN, Infinity, Num(5000)}}
    \cup {[b EXCEPT !.maxTokens = x] : x \in {Num(-1), NaN, Infinity}}

\* the valid tables, each with one entry spoilt, and each with an entry
\* repeated or added
SpoiltTables ==
    UNION {{[t EXCEPT ![i] = b] : b \in BadCategoryBudgets(t[i])} :
              i \in {1}, t \in ValidTables}
    \cup {Append(t, t[1]) : t \in ValidTables}
    \cup {Append(t, CategoryBudget("decision", Num(0), Num(0), Num(0))) :
              t \in ValidTables}

TotalBudgetInputs == {Num(1), Num(50), Num(300), Num(10000), Num(200000), Num(0)}

TableInputs ==
    ValidTables \cup {<< CategoryBudget("changed", Num(50), Num(0), Num(1000)),
                         CategoryBudget("task", Num(30), Num(0), Num(1000)) >>}

CtorTotalBudgetInputs ==
    {Num(1), Num(10000), Num(0), Num(-100), NaN, Infinity}

CtorTableInputs == ValidTables \cup SpoiltTables

(***************************************************************************)
(* The allocator and its caller as a state machine                         *)
(***************************************************************************)
Init ==
    /\ allocator = None
    /\ contextItems = <<>>
    /\ thrown = "none"
    /\ lastCall = [op |-> "none"]
    /\ result = None
    /\ model = [components |-> <<>>, declaredEdges |-> <<>>,
                discoveredEdges |-> <<>>, dependentsByComponent |-> <<>>]
    /\ analyzer = None
    /\ changes = <<>>
    /\ report = None
    /\ trail = None
    /\ builder = [files |-> <<>>]
    /\ added = <<>>
    /\ built = None

\* new BudgetAllocator(totalBudget) or new BudgetAllocator(totalBudget, budgets);
\* the caller starts a fresh item list
Construct(totalBudget, custom, budgets) ==
    /\ allocator' = NewAllocator(totalBudget, custom, budgets)
    /\ thrown' = IF ConstructorThrows(totalBudget, custom, budgets)
                 THEN "BudgetValidationError" ELSE "none"
    /\ lastCall' = [op |-> "new", totalBudget |-> totalBudget,
                    custom |-> custom, budgets |-> budgets]
    /\ contextItems' = <<>>
    /\ result' = None
    /\ UNCHANGED <<impactVars, graphVars>>

ConstructDefault(totals) ==
    \E totalBudget \in totals : Construct(totalBudget, FALSE, DEFAULT_BUDGETS)

ConstructCustom(totals, tables) ==
    \E totalBudget \in totals, budgets \in tables :
        Construct(totalBudget, TRUE, budgets)

\* items.push(item): the caller collects one more item
PushItem(pool) ==
    /\ allocator # None
    /\ Len(contextItems) < MaxItems
    /\ \E item \in pool :
        contextItems' = Append(contextItems, [item EXCEPT !.ref = Len(contextItems) + 1])
    /\ lastCall' = [op |-> "push"]
    /\ thrown' = "none"
    /\ result' = None
    /\ UNCHANGED allocator
    /\ UNCHANGED <<impactVars, graphVars>>

\* allocator.allocate(items)
Allocate ==
    /\ allocator # None
    /\ result' = allocate(allocator, contextItems)
    /\ lastCall' = [op |-> "allocate"]
    /\ thrown' = "none"
    /\ UNCHANGED <<allocator, contextItems>>
    /\ UNCHANGED <<impactVars, graphVars>>

Next ==
    \/ ConstructDefault(TotalBudgetInputs)
    \/ ConstructCustom(TotalBudgetInputs, TableInputs)
    \/ PushItem(ItemPool)
    \/ Allocate

Spec == Init /\ [][Next]_vars

\* the same machine with the constructor's arguments drawn from the valid and
\* the invalid ones
NextCtor ==
    \/ ConstructDefault(CtorTotalBudgetInputs)
    \/ ConstructCustom(CtorTotalBudgetInputs, CtorTableInputs)
    \/ PushItem(SmallItemPool)
    \/ Allocate

SpecCtor == Init /\ [][NextCtor]_vars

(***************************************************************************)
(* Claims about the allocator                                              *)
(***************************************************************************)
Allocated == result.allocated

Dropped == result.dropped

TokensOf(list) == SumSeq([k \in DOMAIN list |-> list[k].tokens])

\* how often input item i occurs in a result list
Occurrences(list, i) == Cardinality({k \in DOMAIN list : list[k].ref = i})

\* the allocated entry is input item `it` as it was, or its truncated copy
WholeOrTruncatedCopy(entry, it) ==
    \/ entry = it
    \/ /\ it.truncatable /\ ~entry.truncatable
       /\ entry.category = it.category /\ entry.path = it.path
       /\ entry.priority = it.priority /\ entry.ref = it.ref

SubBudget(c) == BudgetOf(calculateCategoryBudgets(allocator), c)

\* C1: after allocate(items), every input item is in exactly one of
\* result.allocated (whole, or as its truncated copy) and result.dropped
\* (untouched), so |allocated| + |dropped| = |items|.
C1_EveryItemOnce ==
    result # None =>
        /\ \A i \in DOMAIN contextItems :
              Occurrences(Allocated, i) + Occurrences(Dropped, i) = 1
        /\ Len(Allocated) + Len(Dropped) = Len(contextItems)
        /\ \A k \in DOMAIN Dropped :
              /\ Dropped[k].ref \in DOMAIN contextItems
              /\ Dropped[k] = contextItems[Dropped[k].ref]
        /\ \A k \in DOMAIN Allocated :
              /\ Allocated[k].ref \in DOMAIN contextItems
              /\ WholeOrTruncatedCopy(Allocated[k], contextItems[Allocated[k].ref])

\* an allocation with a whole item, a truncated copy and a dropped item
C1_Witness ==
    /\ result # None
    /\ Dropped # <<>>
    /\ \E k \in DOMAIN Allocated : Allocated[k] = contextItems[Allocated[k].ref]
    /\ \E k \in DOMAIN Allocated : Allocated[k] # contextItems[Allocated[k].ref]

\* C2: after allocate, budgetUsed[c] is at most the sub-budget computed for c,
\* for every category c, also when an item of c was truncated.
C2_UsedWithinSubBudget ==
    result # None =>
        \A c \in DOMAIN result.budgetUsed : result.budgetUsed[c] <= SubBudget(c)

\* C3: result.totalTokens equals the sum of the tokens of the items in
\* result.allocated, and equals the sum of all budgetUsed entries.
C3_TotalTokens ==
    result # None =>
        /\ result.totalTokens = TokensOf(Allocated)
        /\ result.totalTokens =
              SumOver(result.budgetUsed, DOMAIN result.budgetUsed)
        /\ \A c \in DOMAIN result.budgetUsed :
              result.budgetUsed[c] =
                  TokensOf(SelectSeq(Allocated, LAMBDA it : it.category = c))

\* an allocation spread over two categories, one item truncated
C3_Witness ==
    /\ result # None
    /\ \E k \in DOMAIN Allocated : Allocated[k] # contextItems[Allocated[k].ref]
    /\ Cardinality({c \in DOMAIN result.budgetUsed : result.budgetUsed[c] > 0}) >= 2

\* The configurations the constructor has to refuse, stated from the rules and
\* not from the order in which validateBudgets tests them.
InvalidTotalBudget(t) == ~t.fin \/ t.v <= 0

FiniteIn(x, lo, hi) == x.fin /\ lo <= x.v /\ x.v <= hi

InvalidTable(t) ==
    \/ \E i, j \in DOMAIN t : i # j /\ t[i].category = t[j].category
    \/ \E i \in DOMAIN t : ~FiniteIn(t[i].percentage, 0, PctScale)
    \/ \E i \in DOMAIN t : ~t[i].minTokens.fin \/ t[i].minTokens.v < 0
    \/ \E i \in DOMAIN t : ~t[i].maxTokens.fin \/ t[i].maxTokens.v < 0
    \/ \E i \in DOMAIN t : /\ t[i].minTokens.fin /\ t[i].maxTokens.fin
                           /\ t[i].minTokens.v > t[i].maxTokens.v
    \/ \* a sum of hundredths differs from 1 by more than 1e-9 when it differs
       /\ \A i \in DOMAIN t : t[i].percentage.fin
       /\ SumSeq([i \in DOMAIN t |-> t[i].percentage.v]) # PctScale

InvalidConfiguration(call) ==
    \/ InvalidTotalBudget(call.totalBudget)
    \/ call.custom /\ InvalidTable(call.budgets)

\* C4: constructing a BudgetAllocator with a non-finite or non-positive total
\* budget, or with a custom table that has a duplicate category, a percentage
\* outside [0,1], a negative or non-finite minTokens or maxTokens, minTokens >
\* maxTokens, or percentages whose sum differs from 1 by more than 1e-9, raises
\* BudgetValidationError and yields no allocator; so every allocator on which
\* allocate runs has a positive total budget and a table free of these defects.
C4_InvalidConfigurationRaises ==
    /\ (lastCall.op = "new" /\ InvalidConfiguration(lastCall)) =>
          (thrown = "BudgetValidationError" /\ allocator = None /\ result = None)
    /\ allocator # None =>
          /\ allocator.totalBudget > 0
          /\ \A i, j \in DOMAIN allocator.budgets :
                i # j => allocator.budgets[i].category # allocator.budgets[j].category
          /\ \A i \in DOMAIN allocator.budgets :
                LET b == allocator.budgets[i]
                IN  /\ 0 <= b.percentage /\ b.percentage <= PctScale
                    /\ 0 <= b.minTokens /\ b.minTokens <= b.maxTokens
          /\ SumSeq([i \in DOMAIN allocator.budgets |->
                        allocator.budgets[i].percentage]) = PctScale

\* the constructor refused a custom table whose only defect is minTokens >
\* maxTokens, with a valid total budget
C4_Witness ==
    /\ lastCall.op = "new" /\ lastCall.custom
    /\ ~InvalidTotalBudget(lastCall.totalBudget)
    /\ thrown = "BudgetValidationError"
    /\ \E i \in DOMAIN lastCall.budgets :
          /\ lastCall.budgets[i].minTokens.fin /\ lastCall.budgets[i].maxTokens.fin
          /\ lastCall.budgets[i].minTokens.v > lastCall.budgets[i].maxTokens.v
    /\ SumSeq([i \in DOMAIN lastCall.budgets |->
                  lastCall.budgets[i].percentage.v]) = PctScale

UsesDefaultTable ==
    allocator # None
    /\ allocator.budgets = NewAllocator(Num(1), FALSE, DEFAULT_BUDGETS).budgets

\* C5: with the default table and a total budget >= 1, every per-category
\* sub-budget is >= 0, and allocate on items with non-negative token counts
\* completes without raising, with every budgetUsed entry and totalTokens >= 0
\* and every item that does not fit dropped (none lost).
C5_SmallBudgetSafety ==
    (UsesDefaultTable /\ allocator.totalBudget >= 1) =>
        /\ \A c \in TableCategories(allocator) : SubBudget(c) >= 0
        /\ lastCall.op = "allocate" => (result # None /\ thrown = "none")
        /\ result # None =>
              /\ \A c \in DOMAIN result.budgetUsed : result.budgetUsed[c] >= 0
              /\ result.totalTokens >= 0
              /\ Len(Allocated) + Len(Dropped) = Len(contextItems)

\* a total budget of 1 with the default table: every sub-budget is 0 and an
\* item that does not fit was dropped
C5_Witness ==
    /\ UsesDefaultTable /\ allocator.totalBudget = 1
    /\ result # None /\ Dropped # <<>>
    /\ \A c \in TableCategories(allocator) : SubBudget(c) = 0

\* C11: result.allocated is in non-increasing priority order; two allocated
\* items of one category with equal priority stand in ascending order of
\* path (a missing path counts as the empty string); allocating the same
\* items again gives the same result.
C11_AllocatedOrder ==
    result # None =>
        /\ \A i, j \in DOMAIN Allocated :
              i < j => /\ Allocated[i].priority >= Allocated[j].priority
                       /\ (/\ Allocated[i].category = Allocated[j].category
                           /\ Allocated[i].priority = Allocated[j].priority)
                          => Allocated[i].path <= Allocated[j].path
        /\ allocate(allocator, contextItems) = result

\* three allocated items of one category and one priority, one of them
\* without a path, that were collected in descending order of path
C11_Witness ==
    /\ result # None
    /\ \E i, j, k \in DOMAIN Allocated :
          /\ i < j /\ j < k
          /\ Allocated[i].category = Allocated[j].category
          /\ Allocated[j].category = Allocated[k].category
          /\ Allocated[i].priority = Allocated[j].priority
          /\ Allocated[j].priority = Allocated[k].priority
          /\ Allocated[i].path = 0
          /\ Allocated[i].path < Allocated[j].path
          /\ Allocated[j].path < Allocated[k].path
          /\ Allocated[i].ref > Allocated[j].ref
          /\ Allocated[j].ref > Allocated[k].ref

\* the list passed to allocate is three 'changed' items of 2000 tokens each
\* that may not be truncated
ThreeChangedItems ==
    /\ Len(contextItems) = 3
    /\ \A i \in DOMAIN contextItems :
          /\ contextItems[i].category = "changed"
          /\ contextItems[i].tokens = 2000
          /\ ~contextItems[i].truncatable

\* the sub-budget of 'changed' is `budget` and, of three such items, two are
\* allocated and one is dropped
RespectsChangedBudget(budget) ==
    (UsesDefaultTable /\ allocator.totalBudget = MinTokensThreshold) =>
        /\ SubBudget("changed") = budget
        /\ (result # None /\ ThreeChangedItems) =>
              /\ Len(Allocated) = 2
              /\ Len(Dropped) = 1

ShareOf(b) == (allocator.totalBudget * b.percentage) \div PctScale

\* C18: a category's sub-budget is min(floor(total * percentage), maxTokens),
\* raised to at least minTokens only when the total budget is >= 10000; below
\* 10000 no floor is applied and the sub-budget never exceeds
\* floor(total * percentage).
C18_SubBudgetFormula ==
    allocator # None =>
        \A i \in DOMAIN allocator.budgets :
            LET b  == allocator.budgets[i]
                sb == SubBudget(b.category)
            IN  IF allocator.totalBudget >= 10000
                THEN /\ sb >= b.minTokens
                     /\ sb >= Min(ShareOf(b), b.maxTokens)
                     /\ sb \in {b.minTokens, Min(ShareOf(b), b.maxTokens)}
                ELSE /\ sb = Min(ShareOf(b), b.maxTokens)
                     /\ sb <= ShareOf(b)

\* a total budget below 10000 and a table entry whose minTokens is above the
\* sub-budget it gets, and items allocated against it
C18_Witness ==
    /\ allocator # None /\ allocator.totalBudget < 10000
    /\ \E i \in DOMAIN allocator.budgets :
          LET b == allocator.budgets[i]
          IN  /\ b.minTokens > SubBudget(b.category)
              /\ SubBudget(b.category) = ShareOf(b)
              /\ SubBudget(b.category) > 0
    /\ result # None /\ Allocated # <<>>

\* input item a has its turn before input item b of the same category
TurnBefore(a, b) ==
    /\ a.category = b.category
    /\ \/ a.priority > b.priority
       \/ a.priority = b.priority /\ a.path < b.path
       \/ a.priority = b.priority /\ a.path = b.path /\ a.ref < b.ref

\* the input items that had their turn before `it`
Earlier(it) ==
    {contextItems[i] : i \in {k \in DOMAIN contextItems :
                                  TurnBefore(contextItems[k], it)}}

IsAllocatedWhole(it) == \E k \in DOMAIN Allocated : Allocated[k] = it

IsTruncated(it) ==
    \E k \in DOMAIN Allocated : Allocated[k].ref = it.ref /\ Allocated[k] # it

IsDropped(it) == \E k \in DOMAIN Dropped : Dropped[k] = it

\* what is left of the category's sub-budget when `it` has its turn: nothing
\* after a truncation, else the sub-budget less the items put in whole
RemainingAt(it) ==
    IF \E e \in Earlier(it) : IsTruncated(e) THEN 0
    ELSE LET whole == {e \in Earlier(it) : IsAllocatedWhole(e)}
         IN  SubBudget(it.category)
             - SumOver([e \in whole |-> e.tokens], whole)

\* C19: within a category the items have their turns in descending priority
\* (ties by ascending path); an item whose tokens are <= what remains at its
\* turn is allocated unchanged and uses up that many tokens; an item that
\* does not fit and is not truncatable, or does not fit while 100 or fewer
\* tokens remain, is dropped unchanged; an item that fits is allocated also
\* after an earlier item was dropped.
C19_GreedyByPriority ==
    result # None =>
        /\ \A i \in DOMAIN contextItems :
              LET it == contextItems[i]
              IN  /\ it.tokens <= RemainingAt(it) => IsAllocatedWhole(it)
                  /\ (/\ it.tokens > RemainingAt(it)
                      /\ (~it.truncatable \/ RemainingAt(it) <= 100))
                     => IsDropped(it)
        /\ \A k, l \in DOMAIN Dropped :
              (k < l /\ Dropped[k].category = Dropped[l].category)
                  => TurnBefore(Dropped[k], Dropped[l])

\* an item was allocated whole, the next could not be truncated and was
\* dropped for want of room, and an item of the same category and lower
\* priority that fitted what the first had left was allocated whole
C19_Witness ==
    /\ result # None
    /\ \E i, j \in DOMAIN contextItems :
          LET a == contextItems[i]
              b == contextItems[j]
          IN  /\ TurnBefore(a, b) /\ IsDropped(a) /\ ~a.truncatable
              /\ a.priority > b.priority
              /\ IsAllocatedWhole(b) /\ b.tokens > 0
              /\ RemainingAt(a) < SubBudget(a.category)
              /\ RemainingAt(b) = RemainingAt(a)

\* the allocated copy of a truncated input item
CopyOf(it) ==
    Allocated[CHOOSE k \in DOMAIN Allocated : Allocated[k].ref = it.ref]

Truncated == {contextItems[i] : i \in {k \in DOMAIN contextItems :
                                           IsTruncated(contextItems[k])}}

\* an item is truncated only when it does not fit, may be truncated and more
\* than 100 tokens remain
TruncatedOnlyWhenNeeded ==
    \A it \in Truncated :
        /\ it.tokens > RemainingAt(it)
        /\ it.truncatable
        /\ RemainingAt(it) > 100

\* a truncated copy fits what remained and may not be truncated again
TruncatedCopyFits ==
    \A it \in Truncated :
        /\ CopyOf(it).tokens <= RemainingAt(it)
        /\ ~CopyOf(it).truncatable

\* at most one item of a category is truncated, and after it no item of that
\* category with a positive token count is allocated
TruncationEndsCategory ==
    /\ \A a, b \in Truncated : a.category = b.category => a = b
    /\ \A it \in Truncated :
          \A i \in DOMAIN contextItems :
              (TurnBefore(it, contextItems[i]) /\ contextItems[i].tokens > 0)
                  => IsDropped(contextItems[i])

\* C20: an item is truncated only when its tokens exceed what remains of the
\* category's budget, it is truncatable and more than 100 tokens remain; the
\* truncated copy has tokens <= that remainder and truncatable false; after
\* it nothing remains, so at most one item per category is truncated and no
\* later item of the category with a positive token count is allocated.
C20_TruncationFitsRemainder ==
    result # None =>
        /\ TruncatedOnlyWhenNeeded
        /\ TruncatedCopyFits
        /\ TruncationEndsCategory

\* the truncation rules without the bound on the copy's tokens
TruncationRules ==
    result # None => TruncatedOnlyWhenNeeded /\ TruncationEndsCategory

\* the place in the input list of the first item of category c
FirstOf(c) ==
    CHOOSE i \in DOMAIN contextItems :
        /\ contextItems[i].category = c
        /\ \A j \in 1..(i - 1) : contextItems[j].category # c

\* C21 (as the code has it): result.dropped lists the dropped items in the
\* order of their turns: category by category in the order in which the
\* categories first occur in the input list and, within a category, by
\* descending priority, then ascending path, then input position.
C21_DroppedInTurnOrder ==
    result # None =>
        \A k, l \in DOMAIN Dropped :
            k < l => IF Dropped[k].category = Dropped[l].category
                     THEN TurnBefore(Dropped[k], Dropped[l])
                     ELSE FirstOf(Dropped[k].category) < FirstOf(Dropped[l].category)

\* C21 as stated: any two dropped items stand in result.dropped as they
\* stand in the input list
C21_DroppedInInputOrder ==
    result # None =>
        \A k, l \in DOMAIN Dropped : k < l => Dropped[k].ref < Dropped[l].ref

\* three items were dropped: two of one category, the one of higher priority
\* collected last and dropped first, and between them in the input an item
\* of another category, dropped after both
C21_Witness ==
    /\ result # None /\ Len(Dropped) = 3
    /\ Dropped[1].category = Dropped[2].category
    /\ Dropped[1].priority > Dropped[2].priority
    /\ Dropped[1].ref = 3 /\ Dropped[2].ref = 1
    /\ Dropped[3].category # Dropped[1].category /\ Dropped[3].ref = 2

\* C27: for a validly constructed allocator the per-category sub-budgets sum
\* to at most the total budget, and result.totalTokens is at most the total
\* budget.
C27_WithinTotalBudget ==
    allocator # None =>
        /\ LET budgets == calculateCategoryBudgets(allocator)
           IN  SumOver(budgets, DOMAIN budgets) <= allocator.totalBudget
        /\ result # None => result.totalTokens <= allocator.totalBudget

(***************************************************************************)
(* Strings, maps and sorting of the analyzer                               *)
(* A string is the sequence of its characters.  `<` on strings and the     *)
(* default Array.prototype.sort compare UTF-16 code units; Alphabet lists  *)
(* the characters used here in code-unit order.  A JS Map is the sequence  *)
(* of its [key, value] entries in insertion order, a JS Set the sequence   *)
(* of its members in insertion order.  A nullable cache is <<>> (null) or  *)
(* <<value>>.                                                              *)
(***************************************************************************)
Alphabet == <<".", "/", "\\", "a", "b", "c", "d", "e", "f", "i", "j", "k", "m",
              "n", "o", "p", "s", "t", "u", "w", "x", "y">>

Code(ch) == CHOOSE i \in DOMAIN Alphabet : Alphabet[i] = ch

\* s < t on strings
StrLess(s, t) ==
    \E k \in 1..(Min(Len(s), Len(t)) + 1) :
        /\ \A j \in 1..(k - 1) : s[j] = t[j]
        /\ IF k > Len(s) THEN k <= Len(t)
           ELSE k <= Len(t) /\ Code(s[k]) < Code(t[k])

\* Array.prototype.sort with a comparator that says "a before b" exactly when
\* Before(a, b): the sort is stable, elements that Before does not order keep
\* their relative position
StableSort(s, Before(_, _)) ==
    LET pos(i) == 1 + Cardinality({j \in DOMAIN s :
                        Before(s[j], s[i]) \/ (~Before(s[i], s[j]) /\ j < i)})
    IN  [k \in DOMAIN s |-> s[CHOOSE i \in DOMAIN s : pos(i) = k]]

\* Array.from(set).sort() and [...list].sort() on strings
SortStrings(s) == StableSort(s, StrLess)

MapHas(m, k) == \E i \in DOMAIN m : m[i].key = k

MapGet(m, k) == m[CHOOSE i \in DOMAIN m : m[i].key = k].value

MapSet(m, k, v) ==
    IF MapHas(m, k)
    THEN [i \in DOMAIN m |-> IF m[i].key = k THEN [key |-> k, value |-> v] ELSE m[i]]
    ELSE Append(m, [key |-> k, value |-> v])

MapValues(m) == [i \in DOMAIN m |-> m[i].value]

SetAdd(s, x) == IF x \in Range(s) THEN s ELSE Append(s, x)

\* normalizePath: backslashes become slashes, one trailing slash is removed
\* unless the path is that slash alone
normalizePath(p) ==
    LET normalized == [i \in DOMAIN p |-> IF p[i] = "\\" THEN "/" ELSE p[i]]
    IN  IF Len(normalized) > 1 /\ normalized[Len(normalized)] = "/"
        THEN SubSeq(normalized, 1, Len(normalized) - 1)
        ELSE normalized

(***************************************************************************)
(* The project model (loader)                                              *)
(* A component is [name, paths, depends_on].  `paths` stands for the       *)
(* component's glob patterns by what minimatch answers for them: it is the *)
(* set of change paths that match one of the patterns.                     *)
(* An edge is [source, target, type, confidence, detection_method] with    *)
(* confidence held as 100 * confidence.                                    *)
(***************************************************************************)
Component(name, paths, depends_on) ==
    [name |-> name, paths |-> paths, depends_on |-> depends_on]

Edge(source, target, type, confidence, method) ==
    [source |-> source, target |-> target, type |-> type,
     confidence |-> confidence, detection_method |-> method]

RECURSIVE InitDependents(_, _, _)
InitDependents(map, components, i) ==
    IF i > Len(components) THEN map
    ELSE InitDependents(MapSet(map, components[i].name, <<>>), components, i + 1)

\* AddDependent that passes over a dependency no component is named after
RECURSIVE AddDependentOnComponents(_, _, _, _)
AddDependentOnComponents(map, name, depends_on, j) ==
    IF j > Len(depends_on) THEN map
    ELSE LET dep == depends_on[j]
         IN  AddDependentOnComponents(
                 IF MapHas(map, dep)
                 THEN MapSet(map, dep, Append(MapGet(map, dep), name))
                 ELSE map,
                 name, depends_on, j + 1)

RECURSIVE AddDependent(_, _, _, _)
AddDependent(map, name, depends_on, j) ==
    IF j > Len(depends_on) THEN map
    ELSE LET dep == depends_on[j]
             dependents == IF MapHas(map, dep) THEN MapGet(map, dep) ELSE <<>>
         IN  AddDependent(MapSet(map, dep, Append(dependents, name)),
                          name, depends_on, j + 1)

RECURSIVE AddDependents(_, _, _)
AddDependents(map, components, i) ==
    IF i > Len(components) THEN map
    ELSE AddDependents(AddDependent(map, components[i].name,
                                    components[i].depends_on, 1),
                       components, i + 1)

buildDependentsMap(components) ==
    AddDependents(InitDependents(<<>>, components, 1), components, 1)

(***************************************************************************)
(* ImpactAnalyzer.getMergedEdges and getReverseFileEdges                   *)
(***************************************************************************)
\* the values of EdgeTypeEnum in code-unit order
EdgeTypes == <<"call", "calls_endpoint", "extends", "import", "publishes_event",
               "reads_config", "test_covers", "type_reference", "uses_table">>

TypeLess(a, b) ==
    (CHOOSE i \in DOMAIN EdgeTypes : EdgeTypes[i] = a)
        < (CHOOSE i \in DOMAIN EdgeTypes : EdgeTypes[i] = b)

EdgeKey(edge) == <<normalizePath(edge.source), normalizePath(edge.target), edge.type>>

RECURSIVE AddDeclaredEdges(_, _, _)
AddDeclaredEdges(edgeMap, edges, i) ==
    IF i > Len(edges) THEN edgeMap
    ELSE AddDeclaredEdges(MapSet(edgeMap, EdgeKey(edges[i]), edges[i]), edges, i + 1)

MergeDiscoveredEdge(edgeMap, edge) ==
    LET key == EdgeKey(edge)
    IN  IF ~MapHas(edgeMap, key) \/ edge.confidence > MapGet(edgeMap, key).confidence
        THEN MapSet(edgeMap, key, edge)
        ELSE edgeMap

RECURSIVE MergeDiscoveredEdges(_, _, _)
MergeDiscoveredEdges(edgeMap, edges, i) ==
    IF i > Len(edges) THEN edgeMap
    ELSE MergeDiscoveredEdges(MergeDiscoveredEdge(edgeMap, edges[i]), edges, i + 1)

\* the comparator of the merged list: source, then target, then type, as given
MergedBefore(a, b) ==
    IF a.source # b.source THEN StrLess(a.source, b.source)
    ELSE IF a.target # b.target THEN StrLess(a.target, b.target)
    ELSE IF a.type # b.type THEN TypeLess(a.type, b.type)
    ELSE FALSE

MergeEdges(m) ==
    StableSort(MapValues(MergeDiscoveredEdges(
                   AddDeclaredEdges(<<>>, m.declaredEdges, 1), m.discoveredEdges, 1)),
               MergedBefore)

getMergedEdges(an, m) ==
    IF an.mergedEdges # <<>> THEN an.mergedEdges[1] ELSE MergeEdges(m)

EndOf(edge, end) == IF end = "source" THEN edge.source ELSE edge.target

\* a lookup from the normalized `end` of each edge to the edges having it
RECURSIVE IndexEdges(_, _, _, _)
IndexEdges(map, edges, i, end) ==
    IF i > Len(edges) THEN map
    ELSE LET k == normalizePath(EndOf(edges[i], end))
             existing == IF MapHas(map, k) THEN MapGet(map, k) ELSE <<>>
         IN  IndexEdges(MapSet(map, k, Append(existing, edges[i])), edges, i + 1, end)

getReverseFileEdges(an, allEdges) ==
    IF an.reverseFileEdges # <<>> THEN an.reverseFileEdges[1]
    ELSE IndexEdges(<<>>, allEdges, 1, "target")

(***************************************************************************)
(* ImpactAnalyzer.findAffectedFiles                                        *)
(* Every loop of analyze() is unrolled with a step budget: a loop that has *)
(* not finished after MaxLoopSteps turns sets `diverged` and stops.        *)
(* A file confidence is held as 1000 * confidence: the edge's 100 * c      *)
(* times the decay factor in tenths (DecayScale).                          *)
(***************************************************************************)
MaxLoopSteps == 40

DecayScale == 10

\* max(0.5, 1 - distance * 0.1), in tenths
FileDecay(distance) == Max(5, DecayScale - distance)

\* FileImpactEdge that gives every edge the distance 1
FileImpactEdgeOneHop(file, other, edge, distance) ==
    [source |-> file, target |-> other, type |-> edge.type,
     confidence |-> edge.confidence * FileDecay(distance),
     detection_method |-> edge.detection_method,
     distance |-> 1]

FileImpactEdge(file, other, edge, distance) ==
    [source |-> file, target |-> other, type |-> edge.type,
     confidence |-> edge.confidence * FileDecay(distance),
     detection_method |-> edge.detection_method,
     distance |-> distance + 1]

\* edges.sort((a, b) => a.<end> < b.<end> ? -1 : 1): the comparator never
\* answers 0, insertion keeps edges with the same <end> in their order
SortEdgesBy(edges, end) ==
    LET Before(a, b) == StrLess(EndOf(a, end), EndOf(b, end))
    IN  StableSort(edges, Before)

\* VisitEdges that reads the far end of an edge without normalizing it
RECURSIVE VisitEdgesRaw(_, _, _, _, _)
VisitEdgesRaw(st, entry, edges, i, end) ==
    IF i > Len(edges) THEN st
    ELSE LET other == EndOf(edges[i], end)
             st1 == IF other \in Range(st.affectedFiles) THEN st
                    ELSE [st EXCEPT
                            !.affectedFiles = Append(@, other),
                            !.fileImpactEdges =
                                Append(@, FileImpactEdge(entry.file, other, edges[i],
                                                         entry.distance)),
                            !.queue = Append(@, [file |-> other,
                                                 distance |-> entry.distance + 1])]
         IN  VisitEdgesRaw(st1, entry, edges, i + 1, end)

\* the loop over the sorted forward (end = "target") or reverse (end =
\* "source") edges of the file being visited
RECURSIVE VisitEdges(_, _, _, _, _)
VisitEdges(st, entry, edges, i, end) ==
    IF i > Len(edges) THEN st
    ELSE LET other == normalizePath(EndOf(edges[i], end))
             st1 == IF other \in Range(st.affectedFiles) THEN st
                    ELSE [st EXCEPT
                            !.affectedFiles = Append(@, other),
                            !.fileImpactEdges =
                                Append(@, FileImpactEdge(entry.file, other, edges[i],
                                                         entry.distance)),
                            !.queue = Append(@, [file |-> other,
                                                 distance |-> entry.distance + 1])]
         IN  VisitEdges(st1, entry, edges, i + 1, end)

\* one dequeued entry of the bidirectional BFS; the two sorts are in place,
\* so the sorted reverse list stays in the (cached) reverse lookup
VisitFile(st, entry) ==
    LET file == entry.file
        forward == SortEdgesBy(IF MapHas(st.forwardEdges, file)
                               THEN MapGet(st.forwardEdges, file) ELSE <<>>, "target")
        st1 == VisitEdges([st EXCEPT !.visited = @ \cup {file}],
                          entry, forward, 1, "target")
        hasReverse == MapHas(st1.reverseEdges, file)
        reverse == SortEdgesBy(IF hasReverse
                               THEN MapGet(st1.reverseEdges, file) ELSE <<>>, "source")
        st2 == IF hasReverse
               THEN [st1 EXCEPT !.reverseEdges = MapSet(@, file, reverse)]
               ELSE st1
    IN  VisitEdges(st2, entry, reverse, 1, "source")

RECURSIVE FileLoop(_, _)
FileLoop(st, fuel) ==
    IF st.head > Len(st.queue) THEN st
    ELSE IF fuel = 0 THEN [st EXCEPT !.diverged = TRUE]
    ELSE LET entry == st.queue[st.head]
             st1 == [st EXCEPT !.head = @ + 1]
         IN  IF entry.file \in st.visited THEN FileLoop(st1, fuel - 1)
             ELSE FileLoop(VisitFile(st1, entry), fuel - 1)

RECURSIVE ToSet(_, _, _)
ToSet(set, list, i) ==
    IF i > Len(list) THEN set ELSE ToSet(SetAdd(set, list[i]), list, i + 1)

FileEdgeBefore(a, b) ==
    IF a.source # b.source THEN StrLess(a.source, b.source)
    ELSE IF a.target # b.target THEN StrLess(a.target, b.target)
    ELSE FALSE

\* returns affectedFiles (a Set), the sorted fileImpactEdges, the reverse
\* lookup as the call leaves it, and whether the loop was cut short
findAffectedFiles(changedPaths, allEdges, reverseEdges) ==
    LET st == FileLoop([affectedFiles |-> changedPaths,
                        fileImpactEdges |-> <<>>,
                        forwardEdges |-> IndexEdges(<<>>, allEdges, 1, "source"),
                        reverseEdges |-> reverseEdges,
                        queue |-> [i \in DOMAIN changedPaths |->
                                      [file |-> changedPaths[i], distance |-> 0]],
                        head |-> 1,
                        visited |-> {},
                        diverged |-> FALSE],
                       MaxLoopSteps)
    IN  [affectedFiles |-> st.affectedFiles,
         fileImpactEdges |-> StableSort(st.fileImpactEdges, FileEdgeBefore),
         reverseEdges |-> st.reverseEdges,
         diverged |-> st.diverged]

(***************************************************************************)
(* ImpactAnalyzer: component-level analysis                                *)
(* A component confidence is held as 10 * confidence (DecayScale).         *)
(***************************************************************************)
Unknown == <<"u", "n", "k", "n", "o", "w", "n">>

\* component.paths.some(pattern => minimatch(path, pattern))
MatchesComponent(path, component) == path \in component.paths

\* the double loop: changes outside, components inside; k counts the turns
RECURSIVE DirectFrom(_, _, _, _)
DirectFrom(direct, chs, components, k) ==
    IF k >= Len(chs) * Len(components) THEN direct
    ELSE LET change == chs[(k \div Len(components)) + 1]
             component == components[(k % Len(components)) + 1]
         IN  DirectFrom(IF MatchesComponent(change.path, component)
                        THEN SetAdd(direct, component.name) ELSE direct,
                        chs, components, k + 1)

findDirectComponents(m, chs) == DirectFrom(<<>>, chs, m.components, 0)

\* dependentsByComponent.get(current) ?? [], sorted when longer than one
OrderedDependents(m, current) ==
    LET dependents == IF MapHas(m.dependentsByComponent, current)
                      THEN MapGet(m.dependentsByComponent, current) ELSE <<>>
    IN  IF Len(dependents) <= 1 THEN dependents ELSE SortStrings(dependents)

RECURSIVE AddUnseen(_, _, _)
AddUnseen(st, dependents, i) ==
    IF i > Len(dependents) THEN st
    ELSE AddUnseen(IF dependents[i] \in Range(st.all) THEN st
                   ELSE [st EXCEPT !.all = Append(@, dependents[i]),
                                   !.queue = Append(@, dependents[i])],
                   dependents, i + 1)

\* AddUnseen without the all.has(dependent) test
RECURSIVE AddEvery(_, _, _)
AddEvery(st, dependents, i) ==
    IF i > Len(dependents) THEN st
    ELSE AddEvery([st EXCEPT !.all = Append(@, dependents[i]),
                             !.queue = Append(@, dependents[i])],
                  dependents, i + 1)

\* one dequeued component of findTransitiveComponents
ExpandComponentUnguarded(st, m) ==
    AddEvery([st EXCEPT !.head = @ + 1], OrderedDependents(m, st.queue[st.head]), 1)

ExpandComponent(st, m) ==
    AddUnseen([st EXCEPT !.head = @ + 1], OrderedDependents(m, st.queue[st.head]), 1)

RECURSIVE TransitiveLoop(_, _, _)
TransitiveLoop(st, m, fuel) ==
    IF st.head > Len(st.queue) THEN st
    ELSE IF fuel = 0 THEN [st EXCEPT !.diverged = TRUE]
    ELSE TransitiveLoop(ExpandComponent(st, m), m, fuel - 1)

\* findTransitiveComponents that follows no dependents
findTransitiveComponentsDirectOnly(m, direct) ==
    [all |-> direct, diverged |-> FALSE]

\* returns [all, diverged]; `all` is a Set, direct components first
findTransitiveComponents(m, direct) ==
    LET st == TransitiveLoop([all |-> direct, queue |-> SortStrings(direct),
                              head |-> 1, diverged |-> FALSE], m, MaxLoopSteps)
    IN  [all |-> st.all, diverged |-> st.diverged]

RECURSIVE PushAll(_, _, _, _)
PushAll(queue, dependents, dist, i) ==
    IF i > Len(dependents) THEN queue
    ELSE PushAll(Append(queue, <<dependents[i], dist>>), dependents, dist, i + 1)

\* SettleDistance with the comparison turned round: a component already
\* settled is settled again by every later, longer, route
SettleDistanceLatest(st, m) ==
    LET current == st.queue[st.head][1]
        dist == st.queue[st.head][2]
        st1 == [st EXCEPT !.head = @ + 1]
    IN  IF MapHas(st.distances, current) /\ MapGet(st.distances, current) > dist
        THEN st1
        ELSE [st1 EXCEPT !.distances = MapSet(@, current, dist),
                         !.queue = PushAll(@, OrderedDependents(m, current),
                                           dist + 1, 1)]

\* one dequeued [component, dist] of calculateDistances
SettleDistance(st, m) ==
    LET current == st.queue[st.head][1]
        dist == st.queue[st.head][2]
        st1 == [st EXCEPT !.head = @ + 1]
    IN  IF MapHas(st.distances, current) /\ MapGet(st.distances, current) <= dist
        THEN st1
        ELSE [st1 EXCEPT !.distances = MapSet(@, current, dist),
                         !.queue = PushAll(@, OrderedDependents(m, current),
                                           dist + 1, 1)]

RECURSIVE DistanceLoop(_, _, _)
DistanceLoop(st, m, fuel) ==
    IF st.head > Len(st.queue) THEN st
    ELSE IF fuel = 0 THEN [st EXCEPT !.diverged = TRUE]
    ELSE DistanceLoop(SettleDistance(st, m), m, fuel - 1)

\* returns [distances, diverged]
calculateDistances(m, direct) ==
    LET sorted == SortStrings(direct)
        st == DistanceLoop([distances |-> <<>>,
                            queue |-> [i \in DOMAIN sorted |-> <<sorted[i], 0>>],
                            head |-> 1, diverged |-> FALSE], m, MaxLoopSteps)
    IN  [distances |-> st.distances, diverged |-> st.diverged]

\* the sorted changed paths matching the component; <<>> stands for no entry
MatchingFiles(component, chs) ==
    SortStrings(SelectSeq([i \in DOMAIN chs |-> chs[i].path],
                          LAMBDA path : MatchesComponent(path, component)))

mapComponentsToFiles(m, chs) ==
    LET Add(map, i) == IF MatchingFiles(m.components[i], chs) # <<>>
                       THEN MapSet(map, m.components[i].name,
                                   MatchingFiles(m.components[i], chs))
                       ELSE map
        F[i \in 0..Len(m.components)] == IF i = 0 THEN <<>> ELSE Add(F[i - 1], i)
    IN  F[Len(m.components)]

\* findDependencySource that never looks for a direct dependency
findDependencySourceFirstEntry(m, target, direct) ==
    LET named == {i \in DOMAIN m.components : m.components[i].name = target}
    IN  IF named = {} THEN Unknown
        ELSE LET deps == m.components[CHOOSE i \in named : TRUE].depends_on
             IN  IF deps # <<>> /\ deps[1] # <<>> THEN deps[1] ELSE Unknown

findDependencySource(m, target, direct) ==
    IF ~\E i \in DOMAIN m.components : m.components[i].name = target THEN Unknown
    ELSE LET component ==
                 m.components[CHOOSE i \in DOMAIN m.components :
                                 /\ m.components[i].name = target
                                 /\ \A j \in 1..(i - 1) : m.components[j].name # target]
             deps == component.depends_on
         IN  IF \E j \in DOMAIN deps : deps[j] \in Range(direct)
             THEN deps[CHOOSE j \in DOMAIN deps :
                          /\ deps[j] \in Range(direct)
                          /\ \A l \in 1..(j - 1) : deps[l] \notin Range(direct)]
             ELSE IF deps # <<>> /\ deps[1] # <<>> THEN deps[1] ELSE Unknown

\* max(0.3, 1.0 - distance * 0.2), in tenths
TransitiveConfidence(distance) == Max(3, DecayScale - 2 * distance)

ImpactEdgeFor(m, componentName, direct, distances, componentToFiles) ==
    LET distance == IF MapHas(distances, componentName)
                    THEN MapGet(distances, componentName) ELSE 0
        isDirect == componentName \in Range(direct)
        matchingFiles == IF MapHas(componentToFiles, componentName)
                         THEN MapGet(componentToFiles, componentName) ELSE <<>>
    IN  [source |-> IF isDirect
                    THEN (IF matchingFiles # <<>> /\ matchingFiles[1] # <<>>
                          THEN matchingFiles[1] ELSE Unknown)
                    ELSE findDependencySource(m, componentName, direct),
         target |-> componentName,
         type |-> IF isDirect THEN "direct" ELSE "transitive",
         confidence |-> IF isDirect THEN DecayScale ELSE TransitiveConfidence(distance),
         distance |-> distance,
         reason |-> IF isDirect THEN <<>> ELSE <<distance>>]

ConfidenceBefore(a, b) == a.confidence > b.confidence

\* returns [edges, diverged]; `reason` holds the distance the transitive
\* reason text names, <<>> for the fixed text of a direct edge
buildImpactEdges(m, chs, direct, all) ==
    LET d == calculateDistances(m, direct)
        componentToFiles == mapComponentsToFiles(m, chs)
    IN  [edges |-> StableSort([i \in DOMAIN all |->
                                  ImpactEdgeFor(m, all[i], direct, d.distances,
                                                componentToFiles)],
                              ConfidenceBefore),
         diverged |-> d.diverged]

(***************************************************************************)
(* ImpactAnalyzer.analyze                                                  *)
(***************************************************************************)
NoReturn == [noReturn |-> TRUE]

\* confidenceMean is the quotient sum / n, 0 when there is no edge
Mean(confidences) ==
    IF confidences = <<>> THEN [sum |-> 0, n |-> 1]
    ELSE [sum |-> SumSeq(confidences), n |-> Len(confidences)]

\* returns the report (NoReturn when a loop was cut short) and the analyzer
\* with the caches the call has filled
analyze(an, m, chs) ==
    LET direct == findDirectComponents(m, chs)
        t == findTransitiveComponents(m, direct)
        ie == buildImpactEdges(m, chs, direct, t.all)
        changedPaths == ToSet(<<>>, [i \in DOMAIN chs |-> normalizePath(chs[i].path)], 1)
        allEdges == getMergedEdges(an, m)
        f == findAffectedFiles(changedPaths, allEdges,
                               getReverseFileEdges(an, allEdges))
    IN  [report |->
            IF t.diverged \/ ie.diverged \/ f.diverged THEN NoReturn
            ELSE [changedFiles |-> chs,
                  affectedComponents |-> SortStrings(t.all),
                  affectedFiles |-> SortStrings(f.affectedFiles),
                  impactEdges |-> ie.edges,
                  fileImpactEdges |-> f.fileImpactEdges,
                  summary |->
                     [filesChanged |-> Len(chs),
                      componentsAffected |-> Len(t.all),
                      filesAffected |-> Len(f.affectedFiles),
                      confidenceMean |->
                         Mean([i \in DOMAIN ie.edges |-> ie.edges[i].confidence])]],
         analyzer |-> [mergedEdges |-> <<allEdges>>,
                       reverseFileEdges |-> <<f.reverseEdges>>]]

(***************************************************************************)
(* ImpactAnalyzer.explainImpact                                            *)
(* An impact score is the exact fraction [num, den] in lowest terms.  A    *)
(* chain node is [step, from, to, edgeType, confidence, detectionMethod]   *)
(* with confidence held as 100 * confidence; the edges of the model carry  *)
(* no evidence text, so a node's evidence is always null and is left out.  *)
(***************************************************************************)
Null == [null |-> TRUE]

HopDecayScale == 20

RECURSIVE Gcd(_, _)
Gcd(a, b) == IF b = 0 THEN a ELSE Gcd(b, a % b)

Fraction(num, den) ==
    LET g == Gcd(num, den) IN [num |-> num \div g, den |-> den \div g]

Times(x, y) == Fraction(x.num * y.num, x.den * y.den)

One == [num |-> 1, den |-> 1]

\* the adjacency lists of findShortestPath: a lookup from the normalized
\* `from` end of each edge to the normalized `to` ends, in merged order
RECURSIVE Adjacency(_, _, _, _, _)
Adjacency(map, edges, i, from, to) ==
    IF i > Len(edges) THEN map
    ELSE LET k == normalizePath(EndOf(edges[i], from))
             existing == IF MapHas(map, k) THEN MapGet(map, k) ELSE <<>>
         IN  Adjacency(MapSet(map, k, Append(existing,
                                             normalizePath(EndOf(edges[i], to)))),
                       edges, i + 1, from, to)

\* the null that visited holds for a changed file: no path is the empty string
NoFile == <<>>

\* a seeding that starts the search from the first changed path alone
SeedSearchFirstOnly(st, changedPaths, i) ==
    IF i > Len(changedPaths) THEN st
    ELSE [st EXCEPT !.visited = MapSet(@, changedPaths[1], NoFile),
                    !.queue = Append(@, changedPaths[1])]

\* visited.set(changed, null); queue.push(changed) for every changed path
RECURSIVE SeedSearch(_, _, _)
SeedSearch(st, changedPaths, i) ==
    IF i > Len(changedPaths) THEN st
    ELSE SeedSearch([st EXCEPT !.visited = MapSet(@, changedPaths[i], NoFile),
                               !.queue = Append(@, changedPaths[i])],
                    changedPaths, i + 1)

\* one of the two inner loops: every neighbour not yet visited is recorded
\* with `current` as the file before it and joins the queue
RECURSIVE Explore(_, _, _, _)
Explore(st, current, neighbours, i) ==
    IF i > Len(neighbours) THEN st
    ELSE Explore(IF MapHas(st.visited, neighbours[i]) THEN st
                 ELSE [st EXCEPT !.visited = MapSet(@, neighbours[i], current),
                                 !.queue = Append(@, neighbours[i])],
                 current, neighbours, i + 1)

\* the files from a changed file to `node`, by the recorded predecessors
RECURSIVE ReconstructPath(_, _)
ReconstructPath(visited, node) ==
    IF node = NoFile THEN <<>>
    ELSE Append(ReconstructPath(visited,
                                IF MapHas(visited, node) THEN MapGet(visited, node)
                                ELSE NoFile),
                node)

\* the while loop; every file joins the queue once, so it ends.  The result
\* is Null or [path |-> the files from a changed file to the target]
RECURSIVE SearchLoop(_, _, _, _)
SearchLoop(st, forwardEdges, reverseEdges, target) ==
    IF st.head >= Len(st.queue) THEN Null
    ELSE LET current == st.queue[st.head + 1]
             forward == IF MapHas(forwardEdges, current)
                        THEN SortStrings(MapGet(forwardEdges, current)) ELSE <<>>
             reverse == IF MapHas(reverseEdges, current)
                        THEN SortStrings(MapGet(reverseEdges, current)) ELSE <<>>
             next == [st EXCEPT !.head = @ + 1]
         IN  IF current = target
             THEN [path |-> ReconstructPath(st.visited, current)]
             ELSE SearchLoop(Explore(Explore(next, current, forward, 1),
                                     current, reverse, 1),
                             forwardEdges, reverseEdges, target)

\* a search that follows each edge from its source to its target only
findShortestPathForwardOnly(allEdges, changedPaths, target) ==
    SearchLoop(SeedSearch([visited |-> <<>>, queue |-> <<>>, head |-> 0],
                          changedPaths, 1),
               Adjacency(<<>>, allEdges, 1, "source", "target"),
               <<>>,
               target)

findShortestPath(allEdges, changedPaths, target) ==
    SearchLoop(SeedSearch([visited |-> <<>>, queue |-> <<>>, head |-> 0],
                          changedPaths, 1),
               Adjacency(<<>>, allEdges, 1, "source", "target"),
               Adjacency(<<>>, allEdges, 1, "target", "source"),
               target)

\* the edge lookup of buildEvidenceChain: each edge under both of its keys
RECURSIVE EdgeLookup(_, _, _)
EdgeLookup(edgeMap, edges, i) ==
    IF i > Len(edges) THEN edgeMap
    ELSE LET src == normalizePath(edges[i].source)
             tgt == normalizePath(edges[i].target)
         IN  EdgeLookup(MapSet(MapSet(edgeMap, <<src, tgt>>, edges[i]),
                               <<tgt, src>>, edges[i]),
                        edges, i + 1)

\* x || fallback on a number
OrElse(x, fallback) == IF x = 0 THEN fallback ELSE x

\* chain.push({step: i + 1, from, to, ...}) for the i-th hop counted from 1
EvidenceNode(edgeMap, path, i) ==
    LET from == path[i]
        to == path[i + 1]
        has == MapHas(edgeMap, <<from, to>>) \/ MapHas(edgeMap, <<to, from>>)
        edge == IF MapHas(edgeMap, <<from, to>>) THEN MapGet(edgeMap, <<from, to>>)
                ELSE MapGet(edgeMap, <<to, from>>)
    IN  [step |-> i, from |-> from, to |-> to,
         edgeType |-> IF has THEN edge.type ELSE "import",
         confidence |-> IF has THEN OrElse(edge.confidence, 50) ELSE 50,
         detectionMethod |-> IF has THEN edge.detection_method ELSE "heuristic"]

buildEvidenceChain(allEdges, path) ==
    IF Len(path) < 2 THEN <<>>
    ELSE LET edgeMap == EdgeLookup(<<>>, allEdges, 1)
         IN  [i \in 1..(Len(path) - 1) |-> EvidenceNode(edgeMap, path, i)]

\* node.confidence * Math.max(0.8, 1 - (node.step - 1) * 0.05)
HopFactor(node) ==
    Fraction(node.confidence
                 * Max((8 * HopDecayScale) \div 10, HopDecayScale - (node.step - 1)),
             100 * HopDecayScale)

RECURSIVE ScoreFrom(_, _, _)
ScoreFrom(score, chain, i) ==
    IF i > Len(chain) THEN score
    ELSE ScoreFrom(Times(score, HopFactor(chain[i])), chain, i + 1)

calculatePathImpactScore(chain) ==
    IF chain = <<>> THEN One
    ELSE LET score == ScoreFrom(One, chain, 1)
         IN  IF score.num < 0 THEN Fraction(0, 1)
             ELSE IF score.num > score.den THEN One ELSE score

\* returns the trail (Null when the target is not impacted) and the analyzer
\* with the cache the call has filled
explainImpact(an, m, targetFile, chs) ==
    LET normalizedTarget == normalizePath(targetFile)
        changedPaths == ToSet(<<>>, [i \in DOMAIN chs |-> normalizePath(chs[i].path)], 1)
        allEdges == getMergedEdges(an, m)
        found == findShortestPath(allEdges, changedPaths, normalizedTarget)
        chain == buildEvidenceChain(allEdges, found.path)
    IN  IF normalizedTarget \in Range(changedPaths)
        THEN [trail |-> [targetFile |-> normalizedTarget, impactScore |-> One,
                         isDirectlyChanged |-> TRUE, chain |-> <<>>],
              analyzer |-> an]
        ELSE [trail |-> IF found = Null THEN Null
                        ELSE [targetFile |-> normalizedTarget,
                              impactScore |-> calculatePathImpactScore(chain),
                              isDirectlyChanged |-> FALSE, chain |-> chain],
              analyzer |-> [an EXCEPT !.mergedEdges = <<allEdges>>]]

(***************************************************************************)
(* Inputs of the analyzer                                                  *)
(***************************************************************************)
MaxComponents == 5

MaxEdges == 2

MaxModelSize == 5

ComponentNames == << <<"a">>, <<"b">>, <<"c">>, <<"d">>, <<"e">>, <<"f">> >>

\* the i-th component file: its patterns match the changed file of its own
\* name (the first three) or none of the changed files
ComponentPaths(i) == IF i <= 3 THEN {ComponentNames[i]} ELSE {}

\* depends_on of the i-th component file.  Between them the choices give a
\* self-loop (a on a), a two-cycle (a on b, b on a), a three-cycle, a fan
\* (b and c on a), a short cut (c on b and on a) and a chain of four hops
DependsOnChoices(i) ==
    LET N == ComponentNames
    IN  CASE i = 1 -> {<<>>, <<N[1]>>, <<N[2]>>}
          [] i = 2 -> {<<N[1]>>, <<N[3]>>}
          [] i = 3 -> {<<N[2]>>, <<N[2], N[1]>>, <<N[1]>>}
          [] OTHER -> {<<N[i - 1]>>}

EdgePool ==
    {Edge(<<"a">>, <<"b">>, "import", 95, "ast"),
     Edge(<<"a", "/">>, <<"b">>, "import", 95, "regex"),
     Edge(<<"a">>, <<"b">>, "import", 50, "declared"),
     Edge(<<"b", "\\">>, <<"c">>, "call", 80, "ast"),
     Edge(<<"c">>, <<"a">>, "import", 100, "declared"),
     Edge(<<"c">>, <<"d">>, "import", 0, "declared")}

ChangedFile(path) == [path |-> path, changeType |-> "modified"]

ChangePool ==
    {<<ChangedFile(<<"a">>)>>,
     <<ChangedFile(<<"b">>), ChangedFile(<<"a">>)>>,
     <<ChangedFile(<<"c">>), ChangedFile(<<"d", "/">>)>>}

ModelSize == Len(model.components) + Len(model.declaredEdges)
                 + Len(model.discoveredEdges)

EdgeCount == Len(model.declaredEdges) + Len(model.discoveredEdges)

(***************************************************************************)
(* The loader, the analyzer and its caller as a state machine              *)
(***************************************************************************)
\* loadComponents reads one more component file; the reverse lookup follows
ReadComponent ==
    /\ analyzer = None
    /\ Len(model.components) < MaxComponents
    /\ ModelSize < MaxModelSize
    /\ \E depends_on \in DependsOnChoices(Len(model.components) + 1) :
         LET i == Len(model.components) + 1
             components == Append(model.components,
                                  Component(ComponentNames[i], ComponentPaths(i),
                                            depends_on))
         IN  model' = [model EXCEPT
                         !.components = components,
                         !.dependentsByComponent = buildDependentsMap(components)]
    /\ UNCHANGED <<analyzer, changes, report, trail>>
    /\ UNCHANGED <<allocVars, graphVars>>

\* loadEdges reads one more entry of declared_edges.yaml
ReadDeclaredEdge ==
    /\ analyzer = None
    /\ EdgeCount < MaxEdges
    /\ ModelSize < MaxModelSize
    /\ \E edge \in EdgePool :
         model' = [model EXCEPT !.declaredEdges = Append(@, edge)]
    /\ UNCHANGED <<analyzer, changes, report, trail>>
    /\ UNCHANGED <<allocVars, graphVars>>

\* loadEdges reads one more entry of discovered_edges.yaml
ReadDiscoveredEdge ==
    /\ analyzer = None
    /\ EdgeCount < MaxEdges
    /\ ModelSize < MaxModelSize
    /\ \E edge \in EdgePool :
         model' = [model EXCEPT !.discoveredEdges = Append(@, edge)]
    /\ UNCHANGED <<analyzer, changes, report, trail>>
    /\ UNCHANGED <<allocVars, graphVars>>

\* new ImpactAnalyzer(model): both caches null; the model is read no further
NewAnalyzer ==
    /\ analyzer = None
    /\ analyzer' = [mergedEdges |-> <<>>, reverseFileEdges |-> <<>>]
    /\ UNCHANGED <<model, changes, report, trail>>
    /\ UNCHANGED <<allocVars, graphVars>>

\* analyzer.getMergedEdges()
GetMergedEdges ==
    /\ analyzer # None
    /\ analyzer' = [analyzer EXCEPT !.mergedEdges = <<getMergedEdges(analyzer, model)>>]
    /\ UNCHANGED <<model, changes, report, trail>>
    /\ UNCHANGED <<allocVars, graphVars>>

\* analyzer.analyze(changes)
Analyze ==
    /\ analyzer # None
    /\ \E chs \in ChangePool :
         LET call == analyze(analyzer, model, chs)
         IN  /\ changes' = chs
             /\ report' = call.report
             /\ analyzer' = IF call.report = NoReturn THEN analyzer ELSE call.analyzer
    /\ UNCHANGED <<model, trail>>
    /\ UNCHANGED <<allocVars, graphVars>>

TargetPool == {<<"a">>, <<"b">>, <<"c">>, <<"d", "/">>, <<"e">>}

\* analyzer.explainImpact(targetFile, changes)
ExplainImpact ==
    /\ analyzer # None
    /\ \E chs \in ChangePool, targetFile \in TargetPool :
         LET call == explainImpact(analyzer, model, targetFile, chs)
         IN  /\ trail' = [targetFile |-> targetFile, changes |-> chs,
                          returned |-> call.trail]
             /\ analyzer' = call.analyzer
    /\ UNCHANGED <<model, changes, report>>
    /\ UNCHANGED <<allocVars, graphVars>>

NextImpact ==
    \/ ReadComponent
    \/ ReadDeclaredEdge
    \/ ReadDiscoveredEdge
    \/ NewAnalyzer
    \/ GetMergedEdges
    \/ Analyze

SpecImpact == Init /\ [][NextImpact]_vars

\* explainImpact reads the edges of the model alone, never its components
NextExplain ==
    \/ ReadDeclaredEdge
    \/ ReadDiscoveredEdge
    \/ NewAnalyzer
    \/ GetMergedEdges
    \/ ExplainImpact

SpecExplain == Init /\ [][NextExplain]_vars

(***************************************************************************)
(* Claims about the analyzer                                               *)
(* The sets and distances the claims speak of are defined here from the    *)
(* model's components and edges alone, not from the analyzer's loops.      *)
(***************************************************************************)
Returned == report # None /\ report # NoReturn

ComponentSet == Range(model.components)

\* the components one of whose patterns matches a changed file
DirectlyMatched ==
    {c.name : c \in {x \in ComponentSet :
                        \E i \in DOMAIN changes : changes[i].path \in x.paths}}

\* the components that list a member of S in depends_on
DependentsOfSet(S) ==
    {c.name : c \in {x \in ComponentSet : Range(x.depends_on) \cap S # {}}}

\* the components within k reverse-dependency hops of a directly matched one
RECURSIVE WithinHops(_)
WithinHops(k) ==
    IF k = 0 THEN DirectlyMatched
    ELSE WithinHops(k - 1) \cup DependentsOfSet(WithinHops(k - 1))

AffectedComponentSet == WithinHops(Len(model.components))

ShortestHops(c) ==
    CHOOSE k \in 0..Len(model.components) :
        c \in WithinHops(k) /\ \A j \in 0..(k - 1) : c \notin WithinHops(j)

CountIn(list, Test(_)) == Cardinality({i \in DOMAIN list : Test(list[i])})

\* C6: on every component graph, with self-loops and cycles, analyze() returns,
\* and each affected component occurs exactly once in affectedComponents and is
\* the target of exactly one impactEdge
C6_CyclesTerminateOncePerComponent ==
    /\ report # NoReturn
    /\ report # None =>
         \A c \in AffectedComponentSet :
            /\ CountIn(report.affectedComponents, LAMBDA x : x = c) = 1
            /\ CountIn(report.impactEdges, LAMBDA e : e.target = c) = 1

\* two affected components depend on each other, and analyze() has returned
C6_Witness ==
    /\ Returned
    /\ \E c1, c2 \in ComponentSet :
         /\ c1.name # c2.name
         /\ c1.name \in Range(c2.depends_on) /\ c2.name \in Range(c1.depends_on)
         /\ {c1.name, c2.name} \subseteq Range(report.affectedComponents)

Perms(s) ==
    {[i \in DOMAIN s |-> s[q[i]]] :
        q \in {f \in [DOMAIN s -> DOMAIN s] :
                  \A i, j \in DOMAIN s : f[i] = f[j] => i = j}}

\* the reverse lookup with each entry's dependents in any order
RECURSIVE MapReorderings(_)
MapReorderings(map) ==
    IF map = <<>> THEN {<<>>}
    ELSE LET last == map[Len(map)]
         IN  {Append(r, [key |-> last.key, value |-> v]) :
                 r \in MapReorderings(SubSeq(map, 1, Len(map) - 1)),
                 v \in Perms(last.value)}

FreshAnalyzer == [mergedEdges |-> <<>>, reverseFileEdges |-> <<>>]

SameResults(r1, r2) ==
    /\ r1 # NoReturn /\ r2 # NoReturn
    /\ r1.affectedComponents = r2.affectedComponents
    /\ r1.affectedFiles = r2.affectedFiles
    /\ r1.impactEdges = r2.impactEdges
    /\ r1.fileImpactEdges = r2.fileImpactEdges

\* C7: the same components, edges and changes give the same affectedComponents,
\* affectedFiles, impactEdges and fileImpactEdges (content and order) whatever
\* the order of the dependents inside dependentsByComponent and whatever the
\* order of discoveredEdges, and so does a repeated call on the same analyzer
C7_OrderIndependent ==
    Returned =>
        /\ SameResults(analyze(analyzer, model, changes).report, report)
        /\ \A dependents \in MapReorderings(model.dependentsByComponent),
              discovered \in Perms(model.discoveredEdges) :
                SameResults(analyze(FreshAnalyzer,
                                    [model EXCEPT !.dependentsByComponent = dependents,
                                                  !.discoveredEdges = discovered],
                                    changes).report,
                            report)

\* C8: a direct component's edge has confidence 1.0 and distance 0; a transitive
\* edge has the shortest number of reverse-dependency hops as distance and
\* confidence max(0.3, 1 - 0.2 * distance); so confidences lie in [0.3, 1] and
\* do not grow with distance (confidences in tenths)
C8_ComponentDistanceAndConfidence ==
    Returned =>
        /\ \A i \in DOMAIN report.impactEdges :
             LET e == report.impactEdges[i]
             IN  /\ e.target \in DirectlyMatched =>
                      e.confidence = DecayScale /\ e.distance = 0
                 /\ e.target \notin DirectlyMatched =>
                      /\ e.target \in AffectedComponentSet
                      /\ e.distance = ShortestHops(e.target)
                      /\ e.confidence = Max(3, DecayScale - 2 * e.distance)
                 /\ 3 <= e.confidence /\ e.confidence <= DecayScale
        /\ \A i, j \in DOMAIN report.impactEdges :
             report.impactEdges[i].distance <= report.impactEdges[j].distance
                => report.impactEdges[i].confidence >= report.impactEdges[j].confidence

\* a direct component at confidence 1.0 together with a component four hops
\* away, whose confidence is at the 0.3 floor
C8_Witness ==
    /\ Returned
    /\ \E i \in DOMAIN report.impactEdges :
         /\ report.impactEdges[i].target \in DirectlyMatched
         /\ report.impactEdges[i].confidence = DecayScale
    /\ \E i \in DOMAIN report.impactEdges :
         /\ report.impactEdges[i].distance = 4
         /\ ShortestHops(report.impactEdges[i].target) = 4
         /\ report.impactEdges[i].confidence = 3

InputEdges == Range(model.declaredEdges) \cup Range(model.discoveredEdges)

MergedList == analyzer.mergedEdges[1]

\* C9: getMergedEdges returns one edge per (normalized source, normalized
\* target, type) key of the declared and discovered edges, namely an input edge
\* whose confidence is the highest among all input edges with that key
C9_MergeKeepsHighestConfidence ==
    (analyzer # None /\ analyzer.mergedEdges # <<>>) =>
        /\ \A i \in DOMAIN MergedList : MergedList[i] \in InputEdges
        /\ \A e \in InputEdges :
             /\ CountIn(MergedList, LAMBDA x : EdgeKey(x) = EdgeKey(e)) = 1
             /\ \A i \in DOMAIN MergedList :
                  EdgeKey(MergedList[i]) = EdgeKey(e)
                     => MergedList[i].confidence >= e.confidence

ChangedPathSet == {normalizePath(changes[i].path) : i \in DOMAIN changes}

\* the files one merged edge away from a member of S, in either direction
Neighbours(S) ==
    {normalizePath(e.target) : e \in {x \in InputEdges : normalizePath(x.source) \in S}}
        \cup
    {normalizePath(e.source) : e \in {x \in InputEdges : normalizePath(x.target) \in S}}

RECURSIVE Connected(_, _)
Connected(S, k) == IF k = 0 THEN S ELSE Connected(S \cup Neighbours(S), k - 1)

ConnectedFiles == Connected(ChangedPathSet, Cardinality(InputEdges))

\* C10: affectedFiles is exactly the normalized changed paths together with
\* every file joined to one of them by a chain of merged edges taken in either
\* direction
C10_AffectedFilesAreTheConnectedFiles ==
    Returned =>
        /\ Range(report.affectedFiles) = ConnectedFiles
        /\ Len(report.affectedFiles) = Cardinality(ConnectedFiles)

\* a changed file no edge mentions, a changed path that differs from its
\* normalized form, and a file two edges away reached against the edges
C10_Witness ==
    /\ Returned
    /\ \E i \in DOMAIN changes :
         /\ normalizePath(changes[i].path) # changes[i].path
         /\ normalizePath(changes[i].path) \notin Neighbours(ConnectedFiles)
         /\ normalizePath(changes[i].path) \in Range(report.affectedFiles)
    /\ \E i \in DOMAIN report.fileImpactEdges :
         /\ report.fileImpactEdges[i].distance = 2
         /\ \E e \in InputEdges :
              /\ normalizePath(e.target) = report.fileImpactEdges[i].source
              /\ normalizePath(e.source) = report.fileImpactEdges[i].target
              /\ e.source # normalizePath(e.source)

(***************************************************************************)
(* GraphBuilder                                                            *)
(* A path or import specifier is the sequence of its characters.  `files`  *)
(* is a JS Map from a normalized path to the imports of its scan result,   *)
(* each import held as its `source` specifier (the only field read).       *)
(* resolveImportPath returns <<>> for null and <<path>> otherwise.         *)
(***************************************************************************)
\* normalized.lastIndexOf('/') + 1: the position of the last slash, 0 if none
LastSlash(s) ==
    LET at == {i \in DOMAIN s : s[i] = "/"}
    IN  IF at = {} THEN 0 ELSE CHOOSE i \in at : \A k \in at : k <= i

dirname(path) ==
    LET normalized == normalizePath(path)
        lastSlash == LastSlash(normalized)
    IN  IF lastSlash = 0 THEN <<".">>
        ELSE IF lastSlash = 1 THEN <<"/">>
        ELSE SubSeq(normalized, 1, lastSlash - 1)

\* s.split('/').filter(Boolean): the non-empty pieces between slashes
RECURSIVE SplitFrom(_, _, _, _)
SplitFrom(s, i, piece, parts) ==
    LET closed == IF piece = <<>> THEN parts ELSE Append(parts, piece)
    IN  IF i > Len(s) THEN closed
        ELSE IF s[i] = "/" THEN SplitFrom(s, i + 1, <<>>, closed)
        ELSE SplitFrom(s, i + 1, Append(piece, s[i]), parts)

SplitPath(s) == SplitFrom(s, 1, <<>>, <<>>)

\* parts.join('/')
RECURSIVE JoinParts(_)
JoinParts(parts) ==
    IF parts = <<>> THEN <<>>
    ELSE IF Len(parts) = 1 THEN parts[1]
    ELSE parts[1] \o <<"/">> \o JoinParts(Tail(parts))

\* joinPath(a, b): normalizePath([a, b].join('/'))
joinPath(a, b) == normalizePath(a \o <<"/">> \o b)

\* the loop over relParts of resolvePath
RECURSIVE ApplyParts(_, _, _)
ApplyParts(resultParts, relParts, i) ==
    IF i > Len(relParts) THEN resultParts
    ELSE LET part == relParts[i]
         IN  ApplyParts(IF part = <<".">> THEN resultParts
                        ELSE IF part = <<".", ".">>
                        THEN IF Len(resultParts) > 0
                             THEN SubSeq(resultParts, 1, Len(resultParts) - 1)
                             ELSE resultParts
                        ELSE Append(resultParts, part),
                        relParts, i + 1)

resolvePath(fromDir, relativePath) ==
    LET normalizedFrom == normalizePath(fromDir)
        normalizedRel == normalizePath(relativePath)
        fromParts == IF normalizedFrom = <<".">> THEN <<>>
                     ELSE SplitPath(normalizedFrom)
        joined == JoinParts(ApplyParts(fromParts, SplitPath(normalizedRel), 1))
    IN  IF joined = <<>> THEN <<".">> ELSE joined

\* extensions that puts .js and .jsx before .ts and .tsx
extensionsJsFirst ==
    << <<".", "j", "s">>, <<".", "j", "s", "x">>, <<".", "t", "s">>,
       <<".", "t", "s", "x">>, <<".", "m", "j", "s">>, <<".", "c", "j", "s">>,
       <<".", "p", "y">>, <<".", "p", "y", "i">>, <<>> >>

\* the extensions to try, in priority order
extensions ==
    << <<".", "t", "s">>, <<".", "t", "s", "x">>, <<".", "j", "s">>,
       <<".", "j", "s", "x">>, <<".", "m", "j", "s">>, <<".", "c", "j", "s">>,
       <<".", "p", "y">>, <<".", "p", "y", "i">>, <<>> >>

IndexName == <<"i", "n", "d", "e", "x">>

\* the first loop of resolveImportPath, from extension i on
RECURSIVE TryFile(_, _, _)
TryFile(files, resolved, i) ==
    IF i > Len(extensions) THEN <<>>
    ELSE IF MapHas(files, resolved \o extensions[i])
    THEN <<resolved \o extensions[i]>>
    ELSE TryFile(files, resolved, i + 1)

\* the second loop of resolveImportPath, from extension i on
RECURSIVE TryIndex(_, _, _)
TryIndex(files, resolved, i) ==
    IF i > Len(extensions) THEN <<>>
    ELSE IF extensions[i] = <<>> THEN TryIndex(files, resolved, i + 1)
    ELSE LET indexPath == joinPath(resolved, IndexName \o extensions[i])
         IN  IF MapHas(files, indexPath) THEN <<indexPath>>
             ELSE TryIndex(files, resolved, i + 1)

resolveImportPath(files, fromPath, importSource) ==
    LET resolved == resolvePath(dirname(fromPath), importSource)
        direct == TryFile(files, resolved, 1)
    IN  IF direct # <<>> THEN direct ELSE TryIndex(files, resolved, 1)

StartsWith(s, prefix) ==
    Len(s) >= Len(prefix) /\ SubSeq(s, 1, Len(prefix)) = prefix

\* isRelativeImport that takes every specifier for a relative one
isRelativeImportAlways(source) == source = source

isRelativeImport(source) ==
    \/ StartsWith(source, <<".", "/">>)
    \/ StartsWith(source, <<".", ".", "/">>)
    \/ source = <<".">>
    \/ source = <<".", ".">>

\* the edge buildEdges pushes; evidence is `import from '<source>'`, held as
\* the specifier
ImportEdge(source, target, importSource) ==
    [source |-> source, target |-> target, type |-> "import",
     confidence |-> 95, detection_method |-> "ast", evidence |-> importSource]

\* the inner loop of buildEdges over the imports of one file
RECURSIVE EdgesOfImports(_, _, _, _)
EdgesOfImports(files, sourcePath, imports, i) ==
    IF i > Len(imports) THEN <<>>
    ELSE LET targetPath == IF isRelativeImport(imports[i])
                           THEN resolveImportPath(files, sourcePath, imports[i])
                           ELSE <<>>
             pushed == IF targetPath # <<>> /\ MapHas(files, targetPath[1])
                       THEN <<ImportEdge(sourcePath, targetPath[1], imports[i])>>
                       ELSE <<>>
         IN  pushed \o EdgesOfImports(files, sourcePath, imports, i + 1)

\* the outer loop of buildEdges over the paths
RECURSIVE EdgesOfPaths(_, _, _)
EdgesOfPaths(files, paths, k) ==
    IF k > Len(paths) THEN <<>>
    ELSE EdgesOfImports(files, paths[k], MapGet(files, paths[k]), 1)
         \o EdgesOfPaths(files, paths, k + 1)

MapKeys(m) == [i \in DOMAIN m |-> m[i].key]

\* Array.from(this.files.keys()).sort()
sortedPaths(files) == SortStrings(MapKeys(files))

\* the comparator of the final sort without its comparison of targets
GraphEdgeBeforeBySource(a, b) == StrLess(a.source, b.source)

\* the comparator of the final sort, as "a goes before b"
GraphEdgeBefore(a, b) ==
    IF a.source # b.source THEN StrLess(a.source, b.source)
    ELSE a.target # b.target /\ StrLess(a.target, b.target)

buildEdges(b) ==
    StableSort(EdgesOfPaths(b.files, sortedPaths(b.files), 1), GraphEdgeBefore)

addScanResult(b, path, imports) ==
    [b EXCEPT !.files = MapSet(@, normalizePath(path), imports)]

(***************************************************************************)
(* Inputs of the graph builder                                             *)
(***************************************************************************)
MaxScans == 4

\* the scan results a caller may add: [path, imports]
ScanPool ==
    { [path |-> <<"b", ".", "t", "s">>,
       imports |-> << <<".", "/", "d">>, <<".", "/", "a">> >>],
      [path |-> <<"b", ".", "t", "s">>,
       imports |-> << <<".", "/", "a", ".", "j", "s">>, <<"a">> >>],
      [path |-> <<"a", ".", "t", "s">>, imports |-> <<>>],
      [path |-> <<"a", ".", "t", "s">>, imports |-> << <<".", "/", "b">> >>],
      [path |-> <<"a", ".", "j", "s">>, imports |-> <<>>],
      [path |-> <<"d", "/", "i", "n", "d", "e", "x", ".", "t", "s">>,
       imports |-> << <<".", ".", "/", "a">>, <<".">> >>],
      [path |-> <<"d", "/", "i", "n", "d", "e", "x", ".", "j", "s">>,
       imports |-> <<>>],
      [path |-> <<"d">>, imports |-> <<>>],
      [path |-> <<"d", "\\", "i", "n", "d", "e", "x", ".", "t", "s">>,
       imports |-> << <<".", "/", "i", "n", "d", "e", "x", ".", "j", "s">> >>] }

(***************************************************************************)
(* The graph builder and its caller as a state machine                     *)
(***************************************************************************)
\* builder.addScanResult(path, result)
AddScanResult ==
    /\ Len(added) < MaxScans
    /\ \E scan \in ScanPool :
         /\ builder' = addScanResult(builder, scan.path, scan.imports)
         /\ added' = Append(added, scan)
    /\ built' = None
    /\ UNCHANGED <<allocVars, impactVars>>

\* builder.buildEdges()
BuildEdges ==
    /\ built = None
    /\ built' = [edges |-> buildEdges(builder)]
    /\ UNCHANGED <<builder, added>>
    /\ UNCHANGED <<allocVars, impactVars>>

\* builder.clear()
Clear ==
    /\ builder.files # <<>>
    /\ builder' = [builder EXCEPT !.files = <<>>]
    /\ added' = <<>>
    /\ built' = None
    /\ UNCHANGED <<allocVars, impactVars>>

NextGraph ==
    \/ AddScanResult
    \/ BuildEdges
    \/ Clear

SpecGraph == Init /\ [][NextGraph]_vars

\* the list dependentsByComponent holds for a name, empty when it has no key
DependentsListed(name) ==
    IF MapHas(model.dependentsByComponent, name)
    THEN MapGet(model.dependentsByComponent, name)
    ELSE <<>>

DependencyNames == UNION {Range(c.depends_on) : c \in ComponentSet}

\* C15: dependentsByComponent has a key for every component name, and
\* component C is in the list for name D exactly when D is in C.depends_on;
\* a depends_on name that is no component has an entry as well.
C15_DependentsMap ==
    LET map   == model.dependentsByComponent
        names == {c.name : c \in ComponentSet}
    IN  /\ \A n \in names \cup DependencyNames : MapHas(map, n)
        /\ \A i, j \in DOMAIN map : map[i].key = map[j].key => i = j
        /\ \A c \in ComponentSet :
              \A d \in names \cup DependencyNames \cup {map[i].key : i \in DOMAIN map} :
                  c.name \in Range(DependentsListed(d)) <=> d \in Range(c.depends_on)
        /\ \A i \in DOMAIN map : Range(map[i].value) \subseteq names

\* a model with a component nothing depends on, a component with a
\* dependent and a depends_on name that is no component
C15_Witness ==
    LET names == {c.name : c \in ComponentSet}
    IN  /\ \E n \in names : /\ MapHas(model.dependentsByComponent, n)
                             /\ DependentsListed(n) = <<>>
        /\ \E n \in names : Len(DependentsListed(n)) = 1
        /\ \E d \in DependencyNames \ names : Len(DependentsListed(d)) = 1

\* the names listed in dependentsByComponent for a member of S
ListedDependents(S) == UNION {Range(DependentsListed(n)) : n \in S}

\* the least set that holds S and the listed dependents of its members
RECURSIVE ReverseClosure(_)
ReverseClosure(S) ==
    IF ListedDependents(S) \subseteq S THEN S
    ELSE ReverseClosure(S \cup ListedDependents(S))

\* C16: affectedComponents is exactly the components with a pattern matching
\* a changed file together with all that reach one of them through the lists
\* of dependentsByComponent; it is in ascending order and has no duplicates.
C16_AffectedComponentsAreTheClosure ==
    Returned =>
        LET ac == report.affectedComponents
        IN  /\ Range(ac) = ReverseClosure(DirectlyMatched)
            /\ \A i, j \in DOMAIN ac : i < j => StrLess(ac[i], ac[j])

\* a changed file of no component and one of a component, a component two
\* hops from it that is affected, and a component that is not affected
C16_Witness ==
    /\ Returned
    /\ \E i \in DOMAIN changes :
          \A c \in ComponentSet : changes[i].path \notin c.paths
    /\ DirectlyMatched # {}
    /\ \E n \in Range(report.affectedComponents) :
          /\ n \notin DirectlyMatched
          /\ n \notin ListedDependents(DirectlyMatched)
    /\ \E c \in ComponentSet : c.name \notin Range(report.affectedComponents)

(***************************************************************************)
(* Claims about the graph builder                                          *)
(***************************************************************************)
Known(path) == MapHas(builder.files, path)

\* the candidates for a lexically resolved path, in the order stated: the
\* path with each extension and then bare, then index with each extension
Candidates(resolved) ==
    LET exts == << <<".", "t", "s">>, <<".", "t", "s", "x">>, <<".", "j", "s">>,
                   <<".", "j", "s", "x">>, <<".", "m", "j", "s">>,
                   <<".", "c", "j", "s">>, <<".", "p", "y">>,
                   <<".", "p", "y", "i">> >>
    IN  [i \in DOMAIN exts |-> resolved \o exts[i]]
        \o <<resolved>>
        \o [i \in DOMAIN exts |-> resolved \o <<"/">> \o IndexName \o exts[i]]

\* the first known candidate, as a set of at most one path
FirstKnown(candidates) ==
    {candidates[i] : i \in {k \in DOMAIN candidates :
                               /\ Known(candidates[k])
                               /\ \A j \in 1..(k - 1) : ~Known(candidates[j])}}

\* the targets of the built edges from `source` for the specifier `spec`
TargetsOf(source, spec) ==
    {built.edges[i].target : i \in {k \in DOMAIN built.edges :
                                       /\ built.edges[k].source = source
                                       /\ built.edges[k].evidence = spec}}

\* the relative imports of the known files, as <<file, specifier>>
RelativeImports ==
    UNION {{<<builder.files[i].key, builder.files[i].value[j]>> :
               j \in {k \in DOMAIN builder.files[i].value :
                         isRelativeImport(builder.files[i].value[k])}} :
           i \in DOMAIN builder.files}

\* C12: a relative import resolves to the first known file among the
\* lexically resolved path with .ts, .tsx, .js, .jsx, .mjs, .cjs, .py, .pyi
\* and no extension, and then the path as a directory with index and each
\* extension; that file is the target of the edge (none when no candidate is
\* known).
C12_FirstKnownCandidateWins ==
    built # None =>
        \A imp \in RelativeImports :
            TargetsOf(imp[1], imp[2])
                = FirstKnown(Candidates(resolvePath(dirname(imp[1]), imp[2])))

\* b.ts imports ./a and ./d while a.ts, a.js and d/index.ts are known: its
\* edges go to a.ts and to d/index.ts
C12_Witness ==
    /\ built # None
    /\ Known(<<"a", ".", "t", "s">>) /\ Known(<<"a", ".", "j", "s">>)
    /\ TargetsOf(<<"b", ".", "t", "s">>, <<".", "/", "a">>)
           = {<<"a", ".", "t", "s">>}
    /\ TargetsOf(<<"b", ".", "t", "s">>, <<".", "/", "d">>)
           = {<<"d", "/", "i", "n", "d", "e", "x", ".", "t", "s">>}

EndsWith(s, suffix) ==
    /\ Len(s) >= Len(suffix)
    /\ SubSeq(s, Len(s) - Len(suffix) + 1, Len(s)) = suffix

\* s with its last n characters replaced by `ending`
WithEnding(s, n, ending) == SubSeq(s, 1, Len(s) - n) \o ending

\* the written extension of an ESM-style specifier and the extension of the
\* source file it stands for
EsmExtensions ==
    { << <<".", "j", "s">>, <<".", "t", "s">> >>,
      << <<".", "j", "s", "x">>, <<".", "t", "s", "x">> >> }

\* C13: a relative import written with .js (.jsx) whose literal file is not
\* known, while the sibling .ts (.tsx) file is, resolves to that file, and
\* buildEdges returns an edge from the importing file to it.
C13_EsmSpecifierResolvesToSource ==
    built # None =>
        \A imp \in RelativeImports, ext \in EsmExtensions :
            LET resolved == resolvePath(dirname(imp[1]), imp[2])
                sibling == WithEnding(resolved, Len(ext[1]), ext[2])
            IN  (EndsWith(resolved, ext[1]) /\ ~Known(resolved) /\ Known(sibling))
                    => sibling \in TargetsOf(imp[1], imp[2])

\* a builder on which the calls of `calls` were made in that order
RECURSIVE BuilderAfter(_)
BuilderAfter(calls) ==
    IF calls = <<>> THEN [files |-> <<>>]
    ELSE LET last == calls[Len(calls)]
         IN  addScanResult(BuilderAfter(SubSeq(calls, 1, Len(calls) - 1)),
                           last.path, last.imports)

\* the built edges ascend by source and, for one source, by target
EdgesAscend ==
    \A i, j \in DOMAIN built.edges :
        i < j => \/ StrLess(built.edges[i].source, built.edges[j].source)
                 \/ /\ built.edges[i].source = built.edges[j].source
                    /\ \/ StrLess(built.edges[i].target, built.edges[j].target)
                       \/ built.edges[i].target = built.edges[j].target

\* the calls made, in whatever order, give the edges that were built
AnyOrderSameEdges ==
    \A calls \in Perms(added) : buildEdges(BuilderAfter(calls)) = built.edges

\* no two calls were made for the same normalized path
OneResultPerFile ==
    \A i, j \in DOMAIN added :
        normalizePath(added[i].path) = normalizePath(added[j].path) => i = j

\* C14 (as the code has it): buildEdges returns its edges in ascending order
\* of (source, then target) by code units, and returns the same list for any
\* order in which scan results of pairwise different normalized paths were
\* added.
C14_SortedAndSameForAnyOrderOfFiles ==
    built # None => EdgesAscend /\ (OneResultPerFile => AnyOrderSameEdges)

\* C14 as stated: the same list for any order of the addScanResult calls
C14_SortedAndSameForAnyOrder ==
    built # None => EdgesAscend /\ AnyOrderSameEdges

\* three files were added, not in the order of their paths, and the built
\* edges have two sources and, for one source, two targets that were pushed
\* in descending order
C14_Witness ==
    /\ built # None /\ OneResultPerFile /\ Len(added) >= 3
    /\ \E i, j \in DOMAIN added : i < j /\ StrLess(added[j].path, added[i].path)
    /\ \E i, j \in DOMAIN built.edges :
          built.edges[i].source # built.edges[j].source
    /\ \E i, j \in DOMAIN built.edges :
          /\ i < j
          /\ built.edges[i].source = built.edges[j].source
          /\ StrLess(built.edges[i].target, built.edges[j].target)
          /\ \E f \in DOMAIN builder.files :
                /\ builder.files[f].key = built.edges[i].source
                /\ \E k, l \in DOMAIN builder.files[f].value :
                      /\ k < l
                      /\ builder.files[f].value[k] = built.edges[j].evidence
                      /\ builder.files[f].value[l] = built.edges[i].evidence

\* the specifier begins with ./ or ../ or is . or ..
WrittenRelative(spec) ==
    \/ Len(spec) >= 2 /\ spec[1] = "." /\ spec[2] = "/"
    \/ Len(spec) >= 3 /\ spec[1] = "." /\ spec[2] = "." /\ spec[3] = "/"
    \/ spec \in {<<".">>, <<".", ".">>}

\* the import specifiers of the scan result held for a known file
ImportsOf(path) == Range(MapGet(builder.files, path))

\* C24: after any addScanResult and clear calls, every edge buildEdges returns
\* has a known source and a known target, stems from a relative import of its
\* source and has type import, confidence 0.95 and detection_method ast; an
\* import of a bare package and a relative import with no known candidate
\* give no edge; files that import each other give both edges.
C24_EdgesStayWithinKnownFiles ==
    built # None =>
        /\ \A i \in DOMAIN built.edges :
              LET e == built.edges[i]
              IN  /\ Known(e.source) /\ Known(e.target)
                  /\ e.evidence \in ImportsOf(e.source)
                  /\ WrittenRelative(e.evidence)
                  /\ e.type = "import" /\ e.confidence = 95
                  /\ e.detection_method = "ast"
        /\ \A f \in DOMAIN builder.files :
              \A spec \in Range(builder.files[f].value) :
                  LET from == builder.files[f].key
                      candidates == Candidates(resolvePath(dirname(from), spec))
                  IN  /\ ~WrittenRelative(spec) => TargetsOf(from, spec) = {}
                      /\ (\A k \in DOMAIN candidates : ~Known(candidates[k]))
                             => TargetsOf(from, spec) = {}
                      /\ (WrittenRelative(spec)
                          /\ \E k \in DOMAIN candidates : Known(candidates[k]))
                             => TargetsOf(from, spec) # {}

\* a.ts and b.ts import each other and both edges were built, while an
\* import of b.ts with no known candidate gave no edge
C24_Witness ==
    /\ built # None
    /\ Len(added) = 2
    /\ TargetsOf(<<"a", ".", "t", "s">>, <<".", "/", "b">>) = {<<"b", ".", "t", "s">>}
    /\ \E spec \in ImportsOf(<<"b", ".", "t", "s">>) :
          TargetsOf(<<"b", ".", "t", "s">>, spec) = {<<"a", ".", "t", "s">>}
    /\ \E spec \in ImportsOf(<<"b", ".", "t", "s">>) :
          /\ TargetsOf(<<"b", ".", "t", "s">>, spec) = {}
    /\ Len(built.edges) = 2

(***************************************************************************)
(* Further claims about the analyzer                                       *)
(***************************************************************************)
FileEdges == Range(report.fileImpactEdges)

\* the BFS distance of an affected file: 0 for a changed file, else the
\* distance of the fileImpactEdge that reached it
DistanceOfFile(f) ==
    IF f \in ChangedPathSet THEN 0
    ELSE (CHOOSE e \in FileEdges : e.target = f).distance

\* the merged edges a fileImpactEdge may stem from: they join its two files,
\* in either direction, and have its type and detection method
Underlying(e) ==
    {m \in Range(MergedList) :
        /\ m.type = e.type /\ m.detection_method = e.detection_method
        /\ {normalizePath(m.source), normalizePath(m.target)} = {e.source, e.target}}

\* every fileImpactEdge is one hop further than its source, and its
\* confidence is that of an underlying merged edge times
\* max(0.5, 1 - (distance - back) * 0.1), and so between half of and the whole
\* of that edge's confidence
FileEdgesDecayFrom(back) ==
    \A e \in FileEdges :
        /\ e.source \in ChangedPathSet \cup {x.target : x \in FileEdges}
        /\ e.distance = DistanceOfFile(e.source) + 1
        /\ \E m \in Underlying(e) :
              /\ e.confidence = m.confidence * Max(5, 10 - (e.distance - back))
              /\ 2 * e.confidence >= m.confidence * DecayScale
              /\ e.confidence <= m.confidence * DecayScale

\* C22: every FileImpactEdge has distance = its BFS parent's distance + 1 and
\* confidence = the underlying merged edge's confidence times
\* max(0.5, 1 - distance * 0.1) for its own distance, hence between half of
\* and the whole of the merged edge's confidence.
C22_FileEdgeConfidenceDecaysWithOwnDistance ==
    Returned => FileEdgesDecayFrom(0)

\* the same with the decay taken at the parent's distance
FileEdgeConfidenceDecaysWithParentDistance ==
    Returned => FileEdgesDecayFrom(1)

TransitiveEdges ==
    {e \in Range(report.impactEdges) : e.type = "transitive"}

\* depends_on of the component of that name
DependsOn(name) == (CHOOSE c \in ComponentSet : c.name = name).depends_on

\* the places in deps of the directly affected components
DirectEntries(deps) == {j \in DOMAIN deps : deps[j] \in DirectlyMatched}

\* a transitive impactEdge names as source the first directly affected entry
\* of its target's depends_on and, when there is none, `fallback` of that list
TransitiveSourceOr(fallback(_)) ==
    \A e \in TransitiveEdges :
        LET deps == DependsOn(e.target)
        IN  e.source = IF DirectEntries(deps) # {}
                       THEN deps[CHOOSE j \in DirectEntries(deps) :
                                    \A l \in DirectEntries(deps) : j <= l]
                       ELSE fallback(deps)

\* C23 (as the code has it): the source of a transitive impactEdge is the
\* first entry of the target's depends_on that is directly affected; when no
\* entry is, it is the first entry of depends_on, and "unknown" only when
\* that list is empty or begins with the empty string.
C23_SourceIsDirectOrFirstDependency ==
    Returned =>
        TransitiveSourceOr(LAMBDA deps : IF deps # <<>> /\ deps[1] # <<>>
                                         THEN deps[1] ELSE Unknown)

\* C23 as stated: "unknown" whenever no entry of depends_on is directly
\* affected
C23_SourceIsDirectOrUnknown ==
    Returned => TransitiveSourceOr(LAMBDA deps : Unknown)

\* a transitive edge whose source is a direct component that is not the first
\* entry of depends_on, and one, two hops away, whose source is not direct
C23_Witness ==
    /\ Returned
    /\ \E e \in TransitiveEdges :
          /\ e.source \in DirectlyMatched
          /\ DependsOn(e.target)[1] # e.source
    /\ \E e \in TransitiveEdges :
          /\ e.distance = 2
          /\ e.source \notin DirectlyMatched
          /\ e.source = DependsOn(e.target)[1]

\* the least number of merged-edge hops, in either direction, from a changed
\* file to f
HopsTo(f) ==
    CHOOSE k \in 0..Cardinality(InputEdges) :
        /\ f \in Connected(ChangedPathSet, k)
        /\ \A j \in 0..(k - 1) : f \notin Connected(ChangedPathSet, j)

\* C28: the fileImpactEdges are a shortest-path forest rooted at the changed
\* files: each affected file that is not changed is the target of exactly one
\* edge, no changed file is a target, each source is an affected file, each
\* distance is the least number of merged-edge hops from a changed file to
\* the target, and filesAffected = distinct changed paths + fileImpactEdges.
C28_ShortestPathForest ==
    Returned =>
        /\ \A f \in Range(report.affectedFiles) \ ChangedPathSet :
              CountIn(report.fileImpactEdges, LAMBDA e : e.target = f) = 1
        /\ \A e \in FileEdges :
              /\ e.target \notin ChangedPathSet
              /\ e.target \in Range(report.affectedFiles)
              /\ e.source \in Range(report.affectedFiles)
              /\ e.distance = HopsTo(e.target)
              /\ e.source \in ChangedPathSet \/ HopsTo(e.source) = e.distance - 1
        /\ report.summary.filesAffected
              = Cardinality(ChangedPathSet) + Len(report.fileImpactEdges)

\* two changed files and a file one hop from one of them and two hops from
\* the other
C28_Witness ==
    /\ Returned
    /\ Cardinality(ChangedPathSet) = 2
    /\ \E e \in FileEdges :
          /\ e.distance = 1
          /\ \E g \in ChangedPathSet :
                g # e.source /\ e.target \in Connected({g}, 2) \ Connected({g}, 1)

\* the order, source, target and confidence of the impactEdges of a report
ImpactEdgeView(r) ==
    [i \in DOMAIN r.impactEdges |->
        <<r.impactEdges[i].source, r.impactEdges[i].target,
          r.impactEdges[i].confidence>>]

\* the source, target, confidence and distance of its fileImpactEdges
FileEdgeView(r) ==
    {<<e.source, e.target, e.confidence, e.distance>> : e \in Range(r.fileImpactEdges)}

ComponentsAgree(r1, r2) ==
    /\ r1.affectedComponents = r2.affectedComponents
    /\ r1.affectedFiles = r2.affectedFiles

\* C29: analyze() gives, for any two orderings of the same changed-file list
\* on the same model, the same affectedComponents, affectedFiles, impactEdges
\* (order, source and confidence) and fileImpactEdges (source, target,
\* confidence and distance).
C29_ChangeOrderIndependent ==
    Returned =>
        \A chs \in Perms(changes) :
            LET other == analyze(FreshAnalyzer, model, chs).report
            IN  /\ other # NoReturn
                /\ ComponentsAgree(other, report)
                /\ ImpactEdgeView(other) = ImpactEdgeView(report)
                /\ FileEdgeView(other) = FileEdgeView(report)

(***************************************************************************)
(* Claims about explainImpact                                              *)
(* What a trail should be is defined here from the edges of the model, not *)
(* from the search of the analyzer.                                        *)
(***************************************************************************)
Explained == trail # None

Trail == trail.returned

ExplainedTarget == normalizePath(trail.targetFile)

ExplainedChanges == {normalizePath(trail.changes[i].path) : i \in DOMAIN trail.changes}

\* the least number of hops from a changed file to the explained target
LeastHops ==
    CHOOSE k \in 0..Cardinality(InputEdges) :
        /\ ExplainedTarget \in Connected(ExplainedChanges, k)
        /\ \A j \in 0..(k - 1) : ExplainedTarget \notin Connected(ExplainedChanges, j)

\* the merged edges that join two files, in either direction
Joining(f, g) ==
    {m \in Range(MergeEdges(model)) :
        \/ normalizePath(m.source) = f /\ normalizePath(m.target) = g
        \/ normalizePath(m.source) = g /\ normalizePath(m.target) = f}

\* the chain leads from a changed file to the target, hop after hop
LeadsToTarget(chain) ==
    /\ chain # <<>>
    /\ chain[1].from \in ExplainedChanges
    /\ chain[Len(chain)].to = ExplainedTarget
    /\ \A i \in DOMAIN chain :
          /\ chain[i].step = i
          /\ i < Len(chain) => chain[i].to = chain[i + 1].from
          /\ Joining(chain[i].from, chain[i].to) # {}

\* C25: explainImpact(target, changes) returns null exactly when the target
\* is not a changed file and no chain of merged edges, taken in either
\* direction, connects a changed file to it; otherwise the chain follows a
\* path of the least possible number of hops from a changed file to the
\* target, each hop joined by a merged edge, and a changed target has an
\* empty chain and impactScore 1.0.
C25_TrailIsAShortestPath ==
    Explained =>
        /\ Trail = Null <=>
              ExplainedTarget \notin Connected(ExplainedChanges, Cardinality(InputEdges))
        /\ Trail # Null =>
              /\ Trail.targetFile = ExplainedTarget
              /\ Trail.isDirectlyChanged <=> ExplainedTarget \in ExplainedChanges
              /\ IF ExplainedTarget \in ExplainedChanges
                 THEN Trail.chain = <<>> /\ Trail.impactScore = One
                 ELSE /\ LeadsToTarget(Trail.chain)
                      /\ Len(Trail.chain) = LeastHops

\* two changed files, and a target two hops from the nearer one that the
\* search reaches against the direction of an edge
C25_Witness ==
    /\ Explained
    /\ Trail # Null
    /\ Cardinality(ExplainedChanges) = 2
    /\ Len(Trail.chain) = 2
    /\ \E i \in DOMAIN Trail.chain :
          \A m \in Joining(Trail.chain[i].from, Trail.chain[i].to) :
              normalizePath(m.target) = Trail.chain[i].from

\* max(0.8, 1 - i * 0.05) for the hop of index i, counted from 0
HopDecay(i) == Fraction(Max(16, 20 - i), 20)

\* the scores the chain may have: the product over its hops of the confidence
\* of a merged edge joining the hop times the decay of the hop
RECURSIVE ScoresUpTo(_, _)
ScoresUpTo(chain, n) ==
    IF n = 0 THEN {One}
    ELSE {Times(Times(s, Fraction(m.confidence, 100)), HopDecay(n - 1)) :
             s \in ScoresUpTo(chain, n - 1),
             m \in Joining(chain[n].from, chain[n].to)}

\* C26: for a reachable target that is not a changed file, impactScore is the
\* product over the hops of the chain, hop index i from 0, of the hop's
\* merged-edge confidence times max(0.8, 1 - i * 0.05), clamped to [0, 1],
\* for every edge confidence in [0, 1], 0 included: a path through an edge of
\* confidence 0 has impactScore 0.
C26_ScoreIsProductOfConfidences ==
    (Explained /\ Trail # Null /\ ExplainedTarget \notin ExplainedChanges) =>
        /\ Trail.impactScore \in ScoresUpTo(Trail.chain, Len(Trail.chain))
        /\ Trail.impactScore.num >= 0
        /\ Trail.impactScore.num <= Trail.impactScore.den

\* C30: explainImpact agrees with analyze on the same analyzer:
\* explainImpact(t, changes) is non-null exactly when t is in
\* analyze(changes).affectedFiles, and for a t that is not a changed file the
\* length of the chain is the distance of the fileImpactEdge whose target is t.
\* The file t is taken by its normalized path, as both calls take it.
C30_TrailAgreesWithAnalyze ==
    Explained =>
        LET r == analyze(analyzer, model, trail.changes).report
            toTarget == {e \in Range(r.fileImpactEdges) : e.target = ExplainedTarget}
        IN  /\ r # NoReturn
            /\ Trail # Null <=> ExplainedTarget \in Range(r.affectedFiles)
            /\ (Trail # Null /\ ExplainedTarget \notin ExplainedChanges) =>
                  /\ Cardinality(toTarget) = 1
                  /\ \A e \in toTarget : Len(Trail.chain) = e.distance

\* two changed files and a target whose chain of two hops starts at the
\* second of them
C30_Witness ==
    /\ Explained
    /\ Trail # Null
    /\ Len(trail.changes) = 2
    /\ Len(Trail.chain) = 2
    /\ Trail.chain[1].from = normalizePath(trail.changes[2].path)

====
